---- MODULE Spec2Model ----
(***************************************************************************)
(* Model of the TFT data collector's crawl-and-enrich pipeline             *)
(* (src/src/index.ts and the services and repositories it calls).          *)
(*                                                                         *)
(* The program is single-threaded async code: every await is a step.  The  *)
(* variable pc is the position of the one thread of control.  The upstream *)
(* API and the store are external: each request draws its outcome          *)
(* nondeterministically (\E) at the step that awaits it.                   *)
(***************************************************************************)
EXTENDS Naturals, Integers, Sequences, FiniteSets, TLC

(* ------------------------------ bounds --------------------------------- *)
NumPlayers == 2        \* player identifiers (PUUIDs) 1..NumPlayers
NumMatches == 2        \* match identifiers 1..NumMatches
MaxIdsPerCall == 2     \* longest match-id list one upstream answer carries
PipelineIdsPerCall == 1 \* the same, within a pipeline run
MaxParticipants == 2   \* most participants one match payload carries
MaxLadder == 1         \* most ladder entries one seed fetch returns
MaxTiers == 2          \* most tiers one command line requests
MaxSeeds == 3          \* largest player-id set given to one call of collect
MaxCalls == 2          \* upstream calls one run of the client makes
MaxSample == 3         \* longest player list given to one call of the sampler
MaxDivisions == 2      \* most divisions one seed fetch is asked for
MaxPages == 2          \* most pages one seed fetch is asked for
MaxReconciles == 2     \* calls of the reconciler in a row
MaxHint == 1           \* largest retry-after hint, in seconds
MaxEntries == 2        \* most queue entries in one league answer
MaxValues == 2         \* different accounts / league standings upstream
MaxGoalLen == 2        \* most characters of the match goal argument
MaxRuns == 2           \* runs of the same command in a row

Max(a, b) == IF a >= b THEN a ELSE b
Puuids == 1..NumPlayers
SeedIds == 1..Max(MaxSeeds, NumPlayers)
MatchIds == 1..NumMatches

(* ------------------------- program constants --------------------------- *)
MATCHES_PER_PLAYER == 20

\* One tier of each class stands for its class.
HIGH_TIERS == {"challenger"}
LOW_TIERS == {"diamond"}
Tiers == HIGH_TIERS \cup LOW_TIERS
isHighTier(tier) == tier \in HIGH_TIERS
keepCase(tier) == tier
toUpperCase(tier) == IF tier = "challenger" THEN "CHALLENGER" ELSE "DIAMOND"
RIOT_MATCH_REGION == "sea"
RATE_LIMIT_DELAY == 1300

(* ------------------------------ helpers -------------------------------- *)
Range(s) == {s[k] : k \in 1..Len(s)}

\* Sequences over S of length at most n.
SeqsUpTo(S, n) == UNION {[1..k -> S] : k \in 0..n}

\* Sequences over S without repetition, of length at most n: the iteration
\* order of a JavaScript Set or the rows of a list that has no duplicates.
InjSeqsUpTo(S, n) == {s \in SeqsUpTo(S, n) : Cardinality(Range(s)) = Len(s)}

\* A JavaScript Set is insertion-ordered: add() appends unless present.
SetAddDup(set, x) == Append(set, x)
SetAdd(set, x) == IF x \in Range(set) THEN set ELSE Append(set, x)

\* list.forEach(id => set.add(id))
RECURSIVE AddAll(_, _)
AddAll(set, list) ==
    IF list = <<>> THEN set
    ELSE AddAll(SetAdd(set, Head(list)), Tail(list))

NoDuplicates(s) == Cardinality(Range(s)) = Len(s)

(* ------------------------------- state --------------------------------- *)
VARIABLES
    args,             \* index.ts: process.argv.slice(2)
    exit_code,        \* the exit code of the process, -1 while it runs
    cli_error,        \* what the command line was refused for
    pc,               \* position of the thread of control
    tiers,            \* index.ts: requested tiers (command line)
    match_goal,       \* index.ts: matches per tier (command line)
    enrich_account,   \* index.ts: Stage 4 flag
    enrich_league,    \* index.ts: Stage 5 flag
    tier_i,           \* runPipeline: loop index i (1-based here)
    raw_selected,     \* collectTierBasedPlayers: players_to_upsert
    puuid_seed_list,  \* Set<string> given to collectMatchIdsFromPlayers
    all_puuid_seeds,  \* runPipeline: accumulated seed set
    collect_k,        \* collectMatchIdsFromPlayers: position in the for-of
    match_id_list,    \* Set<string> built by collect, iterated by stream
    collect_result,   \* how collectMatchIdsFromPlayers ended
    stream_i,         \* fetchAndSaveMatchDetails: position in the for-of
    success_count,    \* fetchAndSaveMatchDetails: success_count
    match_result,     \* fetched results alive and not yet finished
    cb_result,        \* how on_match_fetched ended
    stream_return,    \* value returned by fetchAndSaveMatchDetails
    enrich_ids,       \* all_puuids of the running enrichment stage
    enrich_k,         \* position in the enrichment for-of
    enrich_answer,    \* what the upstream answered to the last lookup
    enrich_record,    \* account / league of the loop body: <<>> is null
    enrich_count,     \* success_count of the running fetchAndSave... call
    enrich_return,    \* what that call returned, -1 before it returns
    enrich_log,       \* per id of that call: was a record fetched, was it saved
    in_flight,        \* external calls issued whose promise has not settled
    max_in_flight,    \* most calls in flight when a call was issued
    players,          \* store: table players
    matches,          \* store: table matches
    links,            \* store: table players_matches_link
    hist,             \* observations of the run (requests, callbacks)
    attempt,          \* retryOnRateLimit: attempt
    caught,           \* retryOnRateLimit: the error caught in this attempt
    retry_outcome,    \* how retryOnRateLimit ended
    endpoint,         \* the fetch function that is running
    now,              \* the clock, in milliseconds
    client_log,       \* observations of the upstream calls made
    sample_players,   \* selectRandomPlayers: the array players
    shuffled,         \* selectRandomPlayers: shuffled
    shuffle_i,        \* selectRandomPlayers: i of the shuffle loop (1-based here)
    selected,         \* selectRandomPlayers: the array returned
    fetch_tier,       \* fecthPlayersBasedTier: tier
    divisions,        \* fecthPlayersBasedTier: divisions
    pages,            \* fecthPlayersBasedTier: pages
    div_k,            \* position in the for-of over divisions
    page_k,           \* position in the for-of over pages
    allPlayers,       \* fecthPlayersBasedTier: allPlayers
    seed_result,      \* how fecthPlayersBasedTier ended
    seed_log,         \* the ladder requests issued and their answers, in order
    reconcile_result, \* how deletePlayersWithoutMatches ended
    reconcile_runs,   \* calls of deletePlayersWithoutMatches so far
    reconcile_log,    \* how each call of deletePlayersWithoutMatches ended, in order
    upstream_payload, \* the participants the upstream holds for the match of a re-run
    persist_log       \* the store and the count returned at the end of each earlier run

vars == <<pc, args, exit_code, cli_error,
          tiers, match_goal, enrich_account, enrich_league, tier_i,
          raw_selected, puuid_seed_list, all_puuid_seeds, collect_k,
          match_id_list, collect_result, stream_i, success_count,
          match_result, cb_result, stream_return, enrich_ids, enrich_k,
          enrich_answer, enrich_record, enrich_count, enrich_return, enrich_log,
          players, matches, links, hist, in_flight, max_in_flight,
          attempt, caught, retry_outcome, endpoint, now, client_log,
          sample_players, shuffled, shuffle_i, selected,
          fetch_tier, divisions, pages, div_k, page_k, allPlayers, seed_result,
          seed_log, reconcile_result, reconcile_runs, reconcile_log,
          upstream_payload, persist_log>>

cliVars == <<tiers, match_goal, enrich_account, enrich_league, args, exit_code, cli_error>>
storeVars == <<players, matches, links>>
collectVars == <<puuid_seed_list, collect_k, match_id_list, collect_result>>
streamVars == <<stream_i, success_count, match_result, cb_result, stream_return>>
enrichVars == <<enrich_ids, enrich_k, enrich_answer, enrich_record, enrich_count,
               enrich_return, enrich_log>>
pipeVars == <<tier_i, raw_selected, all_puuid_seeds>>
awaitVars == <<in_flight, max_in_flight>>
clientVars == <<attempt, caught, retry_outcome, endpoint, now, client_log>>
\* The state of the components when they run on their own.
samplerVars == <<sample_players, shuffled, shuffle_i, selected>>
seedVars == <<fetch_tier, divisions, pages, div_k, page_k, allPlayers, seed_result,
              seed_log>>
reconcileVars == <<reconcile_result, reconcile_runs, reconcile_log>>
rerunVars == <<upstream_payload, persist_log>>
unitVars == <<clientVars, samplerVars, seedVars, reconcileVars, rerunVars>>
\* The state of the pipeline and of collect and stream, but for the store.
runVars == <<cliVars, collectVars, streamVars, enrichVars, pipeVars, hist, awaitVars,
             rerunVars>>
\* The state of the pipeline and of collect and stream.
coreVars == <<cliVars, storeVars, collectVars, streamVars, enrichVars, pipeVars, hist,
              awaitVars, rerunVars>>

(* --------------------------- observations ------------------------------ *)
\* hist records what an observer of the run sees: requests issued to the
\* upstream endpoints and invocations of the persistence callback.
ZeroPerMatch == [m \in MatchIds |-> 0]
ZeroPerPlayer == [p \in SeedIds |-> 0]

HistInit ==
    [ id_requests     |-> ZeroPerPlayer, \* match-id requests, this collect call
      reported        |-> ZeroPerMatch,  \* valid answers naming each id, this collect call
      id_failed       |-> 0,             \* requests that failed or did not validate, this collect call
      s_requests      |-> ZeroPerMatch,  \* detail requests, this stream call
      s_on_match      |-> ZeroPerMatch,  \* callback invocations, this stream call
      s_ok            |-> {},            \* ids fetched, validated and saved, this stream call
      held_at_request |-> 0,             \* most results alive when a request was issued
      detail_requests |-> ZeroPerMatch,  \* detail requests, whole run
      stage3_done     |-> FALSE,
      stage4_done     |-> FALSE,
      stage5_done     |-> FALSE ]

Bump(f, x) == [f EXCEPT ![x] = @ + 1]

(* ---------------------- awaited external calls ------------------------- *)
\* An external call (an upstream request or a store operation) returns a
\* promise: the call is in flight until the promise settles.  `await call()`
\* suspends the caller until then.
IssueCall(calls, call) == Append(calls, call)
Unawaited(calls, call) == calls
Settle(calls, call) == SelectSeq(calls, LAMBDA c : c # call)

Awaited(call) ==
    /\ in_flight' = Settle(IssueCall(in_flight, call), call)
    /\ max_in_flight' = Max(max_in_flight, Len(IssueCall(in_flight, call)))

AwaitIdle ==
    /\ in_flight = <<>>
    /\ max_in_flight = 0

\* No command is run again.
RerunIdle ==
    /\ upstream_payload = {}
    /\ persist_log = <<>>

(* ------------------- upstream answers (external) ----------------------- *)
\* GET /tft/match/v1/matches/by-puuid/{puuid}/ids through retryOnRateLimit:
\* a failure (any status, or throttling retries exhausted), a body that
\* is not an array of strings, or a list of match ids.
IdResponses(max_ids) ==
    {[kind |-> "error", ids |-> <<>>], [kind |-> "invalid", ids |-> <<>>]}
    \cup {[kind |-> "ok", ids |-> l] : l \in SeqsUpTo(MatchIds, max_ids)}

\* GET /tft/match/v1/matches/{match_id} through retryOnRateLimit: a failure,
\* a body RiotMatchSchema rejects, or a match with its participants.
ParticipantSets == {P \in SUBSET Puuids : Cardinality(P) <= MaxParticipants}
DetailResponses ==
    {[kind |-> "error", puuids |-> {}], [kind |-> "invalid", puuids |-> {}]}
    \cup {[kind |-> "ok", puuids |-> P] : P \in ParticipantSets}

(* ------------- MatchIdCollector: collectMatchIdsFromPlayers ------------ *)
InvalidArgument == "Error: The size of puuid seed list is invalid to find match"

SeedListAccepted(seed_list) == FALSE
SeedListInvalid(seed_list) == Len(seed_list) <= 0

\* try { ... parse(response.data).forEach(id => match_id_list.add(id)) } catch { warn }
MergeResponse(set, resp) ==
    IF resp.kind = "ok" THEN AddAll(set, resp.ids) ELSE set

\* The catch of the loop body warns and the for-of takes the next player.
StopAfterFailure(k, n) == n + 1
NextPlayerAfterFailure(k, n) == k + 1

CollectEnter ==
    /\ pc = "collect_call"
    /\ hist' = [hist EXCEPT !.id_requests = ZeroPerPlayer, !.reported = ZeroPerMatch,
                            !.id_failed = 0]
    /\ IF SeedListInvalid(puuid_seed_list)
       THEN /\ collect_result' = InvalidArgument
            /\ pc' = "collect_return"
            /\ UNCHANGED <<match_id_list, collect_k>>
       ELSE /\ collect_result' = "running"
            /\ match_id_list' = <<>>
            /\ collect_k' = 1
            /\ pc' = "collect_loop"
    /\ UNCHANGED awaitVars
    /\ UNCHANGED <<cliVars, unitVars, storeVars, streamVars, enrichVars, pipeVars,
                   puuid_seed_list>>

CollectIter(max_ids) ==
    /\ pc = "collect_loop"
    /\ collect_k <= Len(puuid_seed_list)
    /\ \E resp \in IdResponses(max_ids) :
          /\ match_id_list' = MergeResponse(match_id_list, resp)
          /\ hist' = [hist EXCEPT
                 !.id_requests = Bump(@, puuid_seed_list[collect_k]),
                 !.id_failed = IF resp.kind = "ok" THEN @ ELSE @ + 1,
                 !.reported = IF resp.kind = "ok"
                              THEN [m \in MatchIds |->
                                      IF m \in Range(resp.ids) THEN @[m] + 1 ELSE @[m]]
                              ELSE @]
          /\ collect_k' = IF resp.kind = "ok" THEN collect_k + 1
                          ELSE NextPlayerAfterFailure(collect_k, Len(puuid_seed_list))
    /\ Awaited("match_ids")
    /\ UNCHANGED <<pc, cliVars, unitVars, storeVars, streamVars, enrichVars, pipeVars,
                   puuid_seed_list, collect_result>>

CollectReturn ==
    /\ pc = "collect_loop"
    /\ collect_k > Len(puuid_seed_list)
    /\ collect_result' = "ok"
    /\ pc' = "collect_return"
    /\ UNCHANGED awaitVars
    /\ UNCHANGED <<cliVars, unitVars, storeVars, streamVars, enrichVars, pipeVars,
                   puuid_seed_list, match_id_list, collect_k, hist>>

(* ------------ MatchDetailStreamer: fetchAndSaveMatchDetails ------------ *)
\* The MatchDetailResult built from a validated payload (lines 269-276).
\* The payload of a match is an opaque document that stands for itself: it
\* is written here as the id of the match it describes.
MatchDetailResult(match_id, resp) ==
    [matchId |-> match_id, fullMatchData |-> match_id, playerPuuids |-> resp.puuids]

\* The outer catch logs and the for-of goes on with the next id.
BreakOnError(i, n) == n + 1
NextAfterError(i, n) == i + 1

\* success_count++ stands after the awaited callback, inside the inner try.
CountAlways(count, cb) == count + 1
CountSuccess(count, cb) == IF cb = "ok" THEN count + 1 ELSE count

\* The for-of takes the next id whether the callback completed or threw.
RetryOnFailure(i, cb) == IF cb = "ok" THEN i + 1 ELSE i
NextAfterOnMatch(i, cb) == i + 1

\* match_result is a const of the loop body: it dies with the iteration.
KeepResult(held) == held
ReleaseResult(held) == Tail(held)

StreamEnter ==
    /\ pc = "stream_call"
    /\ stream_i' = 1
    /\ success_count' = 0
    /\ stream_return' = -1
    /\ hist' = [hist EXCEPT !.s_requests = ZeroPerMatch, !.s_on_match = ZeroPerMatch,
                            !.s_ok = {}, !.held_at_request = 0]
    /\ pc' = "stream_loop"
    /\ UNCHANGED awaitVars
    /\ UNCHANGED <<cliVars, unitVars, storeVars, collectVars, enrichVars, pipeVars,
                   match_result, cb_result>>

StreamFetch ==
    /\ pc = "stream_loop"
    /\ stream_i <= Len(match_id_list)
    /\ LET match_id == match_id_list[stream_i] IN
       \E resp \in DetailResponses :
          IF resp.kind = "ok"
          THEN /\ match_result' = Append(match_result, MatchDetailResult(match_id, resp))
               /\ pc' = "on_match"
               /\ hist' = [hist EXCEPT
                      !.s_requests = Bump(@, match_id),
                      !.detail_requests = Bump(@, match_id),
                      !.held_at_request = Max(@, Len(match_result)),
                      !.s_on_match = Bump(@, match_id)]
               /\ UNCHANGED stream_i
          ELSE /\ stream_i' = NextAfterError(stream_i, Len(match_id_list))
               /\ hist' = [hist EXCEPT
                      !.s_requests = Bump(@, match_id),
                      !.detail_requests = Bump(@, match_id),
                      !.held_at_request = Max(@, Len(match_result))]
               /\ UNCHANGED <<pc, match_result>>
    /\ Awaited("match_detail")
    /\ UNCHANGED <<cliVars, unitVars, storeVars, collectVars, enrichVars, pipeVars,
                   success_count, cb_result, stream_return>>

StreamAfterOnMatch ==
    /\ pc = "on_match_returned"
    /\ success_count' = CountSuccess(success_count, cb_result)
    /\ hist' = [hist EXCEPT !.s_ok = IF cb_result = "ok"
                                      THEN @ \cup {match_id_list[stream_i]} ELSE @]
    /\ match_result' = ReleaseResult(match_result)
    /\ stream_i' = NextAfterOnMatch(stream_i, cb_result)
    /\ pc' = "stream_loop"
    /\ UNCHANGED awaitVars
    /\ UNCHANGED <<cliVars, unitVars, storeVars, collectVars, enrichVars, pipeVars,
                   cb_result, stream_return>>

StreamReturn ==
    /\ pc = "stream_loop"
    /\ stream_i > Len(match_id_list)
    /\ stream_return' = success_count
    /\ pc' = "stream_return"
    /\ UNCHANGED awaitVars
    /\ UNCHANGED <<cliVars, unitVars, storeVars, collectVars, enrichVars, pipeVars,
                   stream_i, success_count, match_result, cb_result, hist>>

\* Any callback a caller may pass: it completes or it throws.
OnMatchAny ==
    /\ pc = "on_match"
    /\ \E r \in {"ok", "throw"} : cb_result' = r
    /\ pc' = "on_match_returned"
    /\ UNCHANGED awaitVars
    /\ UNCHANGED <<cliVars, unitVars, storeVars, collectVars, enrichVars, pipeVars,
                   stream_i, success_count, match_result, stream_return, hist>>

(* ------------------------ PersistenceSink ------------------------------ *)
\* The tables are functions from the primary key to the row; links is the
\* set of composite keys <<puuid, match_id>>.

\* A row of players: the league columns and the account columns.
Row(tier, rank, league_points, wins, losses, veteran, inactive, fresh_blood, hot_streak, game_name, tag_line) ==
    [tier |-> tier, rank |-> rank, league_points |-> league_points,
     wins |-> wins, losses |-> losses, veteran |-> veteran,
     inactive |-> inactive, fresh_blood |-> fresh_blood,
     hot_streak |-> hot_streak, game_name |-> game_name, tag_line |-> tag_line]

\* mapRiotPlayerToDB: the row a ladder entry is mapped to.  The ladder
\* entries of a run stand for themselves: one entry per tier.
mapRiotPlayerToDB(tier, game_name, tag_line) ==
    Row(toUpperCase(tier), "I", 100, 10, 5, FALSE, FALSE, FALSE, TRUE,
        game_name, tag_line)

\* upsertPlayers: .upsert(players, { onConflict: 'puuid' }) writes the league
\* columns of every given row; game_name and tag_line are not among the
\* columns written.
SeedRow(old, tier) == mapRiotPlayerToDB(tier, old.game_name, old.tag_line)
NewSeedRow(tier) == mapRiotPlayerToDB(tier, "NULL", "NULL")
upsertPlayers(table, puuids, tier) ==
    [p \in DOMAIN table \cup Range(puuids) |->
        IF p \in Range(puuids)
        THEN IF p \in DOMAIN table THEN SeedRow(table[p], tier) ELSE NewSeedRow(tier)
        ELSE table[p]]

\* upsertMatch: .upsert(validated_match, { onConflict: 'match_id' }) inserts
\* the row or, on conflict, overwrites every column given.
upsertMatchIgnoreDuplicates(table, match_db) ==
    [m \in DOMAIN table \cup {match_db.match_id} |->
        IF m \in DOMAIN table THEN table[m]
        ELSE [data |-> match_db.data, is_processed |-> match_db.is_processed,
              region |-> match_db.region]]
upsertMatch(table, match_db) ==
    [m \in DOMAIN table \cup {match_db.match_id} |->
        IF m = match_db.match_id
        THEN [data |-> match_db.data, is_processed |-> match_db.is_processed,
              region |-> match_db.region]
        ELSE table[m]]

\* upsertPlayerStubs: ignoreDuplicates keeps an existing row as it is.
PlayerStub ==
    Row("UNKNOWN", "IV", 0, 0, 0, FALSE, FALSE, FALSE, FALSE, "NULL", "NULL")
OverwriteWithStubs(table, puuids) ==
    [p \in DOMAIN table \cup puuids |->
        IF p \in puuids THEN PlayerStub ELSE table[p]]
upsertPlayerStubs(table, puuids) ==
    [p \in DOMAIN table \cup puuids |->
        IF p \in DOMAIN table THEN table[p] ELSE PlayerStub]

\* players_matches_link REFERENCES players(puuid) and matches(match_id):
\* the store refuses a link whose player or match row is missing.
ForeignKeysHold(new_links, player_table, match_table) ==
    \A l \in new_links : l[1] \in DOMAIN player_table /\ l[2] \in DOMAIN match_table

ToggleLinks(table, new_links) == (table \ new_links) \cup (new_links \ table)
upsertPlayerMatchLinks(table, new_links) == table \cup new_links

\* delete_orphaned_players(): DELETE FROM players WHERE puuid NOT IN
\* (SELECT DISTINCT puuid FROM players_matches_link).
Linked(link_table) == {l[1] : l \in link_table}
DeleteNone(table, link_table) == table
DeleteOrphanedStubs(table, link_table) ==
    [p \in {q \in DOMAIN table : q \in Linked(link_table) \/ table[q] # PlayerStub} |->
        table[p]]
delete_orphaned_players(table, link_table) ==
    [p \in DOMAIN table \cap Linked(link_table) |-> table[p]]

\* ON DELETE CASCADE: links of a deleted player go with it.
DropAllLinks(link_table, player_table) == link_table \cap {}
CascadeLinks(link_table, player_table) ==
    {l \in link_table : l[1] \in DOMAIN player_table}

\* .update({ game_name, tag_line }).eq('puuid', puuid): the row of that
\* player, if there is one, gets the two columns.
UpsertAccount(table, puuid, gameName, tagLine) ==
    [p \in DOMAIN table \cup {puuid} |->
        IF p = puuid
        THEN [(IF p \in DOMAIN table THEN table[p] ELSE PlayerStub)
                 EXCEPT !.game_name = gameName, !.tag_line = tagLine]
        ELSE table[p]]
updatePlayerAccount(table, puuid, gameName, tagLine) ==
    [p \in DOMAIN table |->
        IF p = puuid
        THEN [table[p] EXCEPT !.game_name = gameName, !.tag_line = tagLine]
        ELSE table[p]]

\* .update({ tier, rank, league_points, ... }).eq('puuid', puuid)
UpdateTierOnly(table, puuid, leagueData) ==
    [p \in DOMAIN table |->
        IF p = puuid THEN [table[p] EXCEPT !.tier = leagueData.tier] ELSE table[p]]
updatePlayerLeague(table, puuid, leagueData) ==
    [p \in DOMAIN table |->
        IF p = puuid
        THEN Row(leagueData.tier, leagueData.rank, leagueData.leaguePoints,
                 leagueData.wins, leagueData.losses, leagueData.veteran,
                 leagueData.inactive, leagueData.freshBlood,
                 leagueData.hotStreak, table[p].game_name, table[p].tag_line)
        ELSE table[p]]

\* SELECT puuid FROM players: the rows in the order the store yields them.
Perms(S) == {q \in [1..Cardinality(S) -> S] : Range(q) = S}
getAllPlayerPuuids(table) == Perms(DOMAIN table)

(* ------------------------- PlayerSampler ------------------------------- *)
FloorDiv(a, b) == a \div b
CeilDiv(a, b) == (a + b - 1) \div b
PlayersNeeded(goal) == CeilDiv(goal, MATCHES_PER_PLAYER)
\* The results selectRandomPlayers can return, over all random draws.
selectRandomPlayers(raw_players, goal) ==
    IF PlayersNeeded(goal) >= Len(raw_players) THEN {raw_players}
    ELSE {q \in InjSeqsUpTo(Range(raw_players), PlayersNeeded(goal)) :
             Len(q) = PlayersNeeded(goal)}

(* ------------- OrphanReconciler: deletePlayersWithoutMatches ----------- *)
\* GET DIAGNOSTICS deleted_count = ROW_COUNT; RETURN deleted_count; and
\* typeof data === 'number' ? data : 0
RowCount(before, after) == Cardinality(DOMAIN before \ DOMAIN after)

ReconcileNoResult == [kind |-> "none", count |-> 0]
ReconcileIdle ==
    /\ reconcile_result = ReconcileNoResult
    /\ reconcile_runs = 0
    /\ reconcile_log = <<>>

\* supabase.rpc('delete_orphaned_players'): the function runs, or the call
\* fails and the error is thrown.
DeletePlayersWithoutMatches ==
    /\ pc = "reconcile_call"
    /\ \E ok \in BOOLEAN :
          IF ok
          THEN /\ players' = delete_orphaned_players(players, links)
               /\ links' = CascadeLinks(links, players')
               /\ reconcile_result' = [kind |-> "returned",
                                       count |-> RowCount(players, players')]
          ELSE /\ reconcile_result' = [kind |-> "thrown", count |-> 0]
               /\ UNCHANGED <<players, links>>
    /\ reconcile_runs' = reconcile_runs + 1
    /\ reconcile_log' = Append(reconcile_log, reconcile_result')
    /\ pc' = "reconcile_return"
    /\ UNCHANGED <<runVars, matches, clientVars, samplerVars, seedVars>>

\* The caller calls the reconciler again, having written nothing.
ReconcileAgain ==
    /\ pc = "reconcile_return"
    /\ reconcile_runs < MaxReconciles
    /\ pc' = "reconcile_call"
    /\ UNCHANGED <<coreVars, clientVars, samplerVars, seedVars, reconcileVars>>

(* ------------- SeedPlayerCollector: fecthPlayersBasedTier -------------- *)
\* What one ladder request can end in: fetchHighTierPlayers and
\* fetchLowTierPlayers rethrow a failed request and a body their schema
\* rejects; otherwise the body carries the entries, which for a low tier
\* name their tier and for a high tier do not.  A player stands on one page
\* of one ladder: the j-th player of a page is named <<division, page, j>>,
\* and a body carries no player or the MaxLadder players of its page.
LadderAnswers(division, page) ==
    {[kind |-> "failed", puuids |-> <<>>]}
    \cup {[kind |-> "ok", puuids |-> [j \in 1..n |-> <<division, page, j>>]] :
             n \in {0, MaxLadder}}

\* validatedData.entries.map(player => ({ ...player, tier: tier.toUpperCase() }))
StampTier(puuids, tier) ==
    [k \in 1..Len(puuids) |-> [puuid |-> puuids[k], tier |-> toUpperCase(tier)]]

\* validatedData.map(player => ({ ...player, tier: player.tier.toUpperCase() })),
\* the body naming the tier of the page that was asked for.
NormalizeTier(puuids, api_tier) ==
    [k \in 1..Len(puuids) |-> [puuid |-> puuids[k], tier |-> toUpperCase(api_tier)]]

\* allPlayers.push(...players), skipped by `continue` when the page is empty.
PushAll(all, page_players) == IF Len(page_players) = 0 THEN all ELSE all \o page_players

\* catch (error) { warn }: the for-of over pages takes the next page.
BreakPages(k, n) == n + 1
NextPageAfterFailure(k, n) == k + 1

SeedNoResult == [kind |-> "none", entries |-> <<>>]
SeedIdle ==
    /\ fetch_tier = "none"
    /\ divisions = <<>>
    /\ pages = <<>>
    /\ div_k = 1
    /\ page_k = 1
    /\ allPlayers = <<>>
    /\ seed_result = SeedNoResult
    /\ seed_log = <<>>

\* if (isHighTier(tier)) return await fetchHighTierPlayers(tier);
FetchHighTier ==
    /\ pc = "seed_call"
    /\ isHighTier(fetch_tier)
    /\ \E answer \in LadderAnswers(0, 0) :
          /\ seed_log' = Append(seed_log, [division |-> 0, page |-> 0, answer |-> answer])
          /\ seed_result' = IF answer.kind = "ok"
                            THEN [kind |-> "returned",
                                  entries |-> StampTier(answer.puuids, fetch_tier)]
                            ELSE [kind |-> "thrown", entries |-> <<>>]
    /\ pc' = "seed_return"
    /\ UNCHANGED <<coreVars, clientVars, samplerVars, reconcileVars, fetch_tier, divisions, pages,
                   div_k, page_k, allPlayers>>

\* if (isLowTier(tier)) { const allPlayers = []; for (const division of divisions)
LowTierEnter ==
    /\ pc = "seed_call"
    /\ ~isHighTier(fetch_tier)
    /\ allPlayers' = <<>>
    /\ div_k' = 1
    /\ page_k' = 1
    /\ pc' = "seed_low_loop"
    /\ UNCHANGED <<coreVars, clientVars, samplerVars, reconcileVars, fetch_tier, divisions, pages,
                   seed_result, seed_log>>

\* One pass of the body of the for-of over pages.
FetchLowTierPage ==
    /\ pc = "seed_low_loop"
    /\ div_k <= Len(divisions)
    /\ page_k <= Len(pages)
    /\ \E answer \in LadderAnswers(divisions[div_k], pages[page_k]) :
          /\ seed_log' = Append(seed_log, [division |-> divisions[div_k],
                                           page |-> pages[page_k], answer |-> answer])
          /\ IF answer.kind = "ok"
             THEN /\ allPlayers' = PushAll(allPlayers,
                                           NormalizeTier(answer.puuids, fetch_tier))
                  /\ page_k' = page_k + 1
             ELSE /\ page_k' = NextPageAfterFailure(page_k, Len(pages))
                  /\ UNCHANGED allPlayers
    /\ UNCHANGED <<coreVars, clientVars, samplerVars, reconcileVars, pc, fetch_tier, divisions, pages,
                   div_k, seed_result>>

\* The for-of over pages has ended: the next division.
NextDivision ==
    /\ pc = "seed_low_loop"
    /\ div_k <= Len(divisions)
    /\ page_k > Len(pages)
    /\ div_k' = div_k + 1
    /\ page_k' = 1
    /\ UNCHANGED <<coreVars, clientVars, samplerVars, reconcileVars, pc, fetch_tier, divisions, pages,
                   allPlayers, seed_result, seed_log>>

\* return allPlayers;
LowTierReturn ==
    /\ pc = "seed_low_loop"
    /\ div_k > Len(divisions)
    /\ seed_result' = [kind |-> "returned", entries |-> allPlayers]
    /\ pc' = "seed_return"
    /\ UNCHANGED <<coreVars, clientVars, samplerVars, reconcileVars, fetch_tier, divisions, pages,
                   div_k, page_k, allPlayers, seed_log>>

(* ------------------------- PlayerSampler, stepwise --------------------- *)
\* The same function step by step, each random draw a choice.
\* [shuffled[i], shuffled[j]] = [shuffled[j], shuffled[i]]
Overwrite(arr, i, j) == [arr EXCEPT ![i] = arr[j]]
Swap(arr, i, j) == [arr EXCEPT ![i] = arr[j], ![j] = arr[i]]

\* const shuffled = [...players]: a write to shuffled does not reach players.
Aliased(input, written) == written
Copied(input, written) == input

\* shuffled.slice(0, players_needed)
slice(arr, n) == SubSeq(arr, 1, n)

SamplerIdle ==
    /\ sample_players = <<>>
    /\ shuffled = <<>>
    /\ shuffle_i = 0
    /\ selected = <<>>

SelectCall ==
    /\ pc = "select_call"
    /\ IF PlayersNeeded(match_goal) >= Len(sample_players)
       THEN /\ selected' = sample_players
            /\ pc' = "select_return"
            /\ UNCHANGED <<shuffled, shuffle_i>>
       ELSE /\ shuffled' = sample_players
            /\ shuffle_i' = Len(sample_players)
            /\ pc' = "shuffle_loop"
            /\ UNCHANGED selected
    /\ UNCHANGED <<coreVars, clientVars, seedVars, reconcileVars, sample_players>>

\* for (let i = shuffled.length - 1; i > 0; i--): j is any index up to i.
ShuffleStep ==
    /\ pc = "shuffle_loop"
    /\ shuffle_i > 1
    /\ \E j \in 1..shuffle_i :
          /\ shuffled' = Swap(shuffled, shuffle_i, j)
          /\ sample_players' = Copied(sample_players, shuffled')
    /\ shuffle_i' = shuffle_i - 1
    /\ UNCHANGED <<coreVars, clientVars, seedVars, reconcileVars, pc, selected>>

SelectSlice ==
    /\ pc = "shuffle_loop"
    /\ shuffle_i <= 1
    /\ selected' = slice(shuffled, PlayersNeeded(match_goal))
    /\ pc' = "select_return"
    /\ UNCHANGED <<coreVars, clientVars, seedVars, reconcileVars, sample_players, shuffled, shuffle_i>>

(* ------------- RateLimitedClient: retryOnRateLimit, sleep -------------- *)
\* What apiCall() can do: resolve with a response, or reject with an error.
\* An error is an AxiosError with the status of the response and, possibly,
\* a retry-after header, or some other error (no response).
NoHint == -1
Hints == 1..MaxHint
NoError == [axios |-> FALSE, status |-> 200, retry_after |-> NoHint]
ThrottlingErrors ==
    {[axios |-> TRUE, status |-> 429, retry_after |-> h] : h \in Hints \cup {NoHint}}
OtherErrors ==
    {[axios |-> TRUE, status |-> 500, retry_after |-> NoHint],
     [axios |-> FALSE, status |-> 0, retry_after |-> NoHint]}
Answers ==
    {[kind |-> "ok", error |-> NoError]}
    \cup {[kind |-> "rejected", error |-> e] : e \in ThrottlingErrors \cup OtherErrors}

\* retryOnRateLimit(apiCall, maxRetries = 3)
maxRetries == 3

\* isAxiosError(error) && error.response?.status === 429
RetryAnyError(error) == TRUE
IsThrottle(error) == error.axios /\ error.status = 429

\* parseInt(error.response.headers['retry-after'] || '10')
DefaultRetryAfter == 10
retryAfter(error) ==
    IF error.retry_after = NoHint THEN DefaultRetryAfter ELSE error.retry_after

\* if (attempt === maxRetries) throw error;
NeverExhausted(attempt_1, max_retries) == FALSE
Exhausted(attempt_1, max_retries) == attempt_1 = max_retries

\* for (let attempt = 1; attempt <= maxRetries; attempt++)
SameAttempt(attempt_1) == attempt_1
NextAttempt(attempt_1) == attempt_1 + 1

\* throw new Error("API call failed after retries")
AfterRetriesError == [axios |-> FALSE, status |-> 0, retry_after |-> NoHint]

NoOutcome == [kind |-> "none", error |-> NoError]
Returned == [kind |-> "returned", error |-> NoError]
Thrown(error) == [kind |-> "thrown", error |-> error]

\* The fetch functions: each awaits retryOnRateLimit(...) and then, on the
\* next line, sleep(RATE_LIMIT_DELAY).
Endpoints == {"ladder_high", "ladder_low", "match_ids", "match_detail", "account", "league"}
SleepAfterHighTier == RATE_LIMIT_DELAY
SleepAfterLowTier == RATE_LIMIT_DELAY
SleepAfterMatchIds == RATE_LIMIT_DELAY
SleepAfterMatchDetail == RATE_LIMIT_DELAY
SleepAfterAccount == RATE_LIMIT_DELAY
SleepAfterLeague == RATE_LIMIT_DELAY
SkipLeagueDelay(e) == IF e = "league" THEN 0 ELSE RATE_LIMIT_DELAY
DelayAfter(e) ==
    CASE e = "ladder_high" -> SleepAfterHighTier
      [] e = "ladder_low" -> SleepAfterLowTier
      [] e = "match_ids" -> SleepAfterMatchIds
      [] e = "match_detail" -> SleepAfterMatchDetail
      [] e = "account" -> SleepAfterAccount
      [] e = "league" -> SleepAfterLeague

\* const response = await retryOnRateLimit(...); await sleep(RATE_LIMIT_DELAY);
\* stand inside a try: when retryOnRateLimit throws, the sleep is skipped.
DelayAlways(outcome) == "fixed_delay"
NextAfterCall(outcome) ==
    IF outcome.kind = "returned" THEN "fixed_delay" ELSE "fetch_idle"

ClientLogInit ==
    [ answers     |-> <<>>,    \* what apiCall() did, per invocation of this call
      sleeps      |-> <<>>,    \* the waits of retryOnRateLimit in this call, ms
      calls_made  |-> 0,       \* fetch functions called so far
      last_ok_at  |-> -1,      \* when the last successful call completed
      last_ok     |-> "none" ] \* its endpoint

ClientIdle ==
    /\ attempt = 1
    /\ caught = NoError
    /\ retry_outcome = NoOutcome
    /\ endpoint = "none"
    /\ now = 0
    /\ client_log = ClientLogInit

\* A fetch function is called and enters retryOnRateLimit.
FetchCall ==
    /\ pc = "fetch_idle"
    /\ client_log.calls_made < MaxCalls
    /\ endpoint' \in Endpoints
    /\ attempt' = 1
    /\ caught' = NoError
    /\ retry_outcome' = NoOutcome
    /\ client_log' = [client_log EXCEPT !.answers = <<>>, !.sleeps = <<>>,
                                        !.calls_made = @ + 1]
    /\ pc' = "api_call"
    /\ UNCHANGED <<coreVars, samplerVars, seedVars, reconcileVars, now>>

\* try { return await apiCall(); } catch (error) { ... }
ApiCall ==
    /\ pc = "api_call"
    /\ \E answer \in Answers :
          /\ IF answer.kind = "ok"
             THEN /\ retry_outcome' = Returned
                  /\ pc' = NextAfterCall(retry_outcome')
                  /\ UNCHANGED caught
             ELSE IF IsThrottle(answer.error)
             THEN /\ caught' = answer.error
                  /\ pc' = "retry_sleep"
                  /\ UNCHANGED retry_outcome
             ELSE /\ retry_outcome' = Thrown(answer.error)
                  /\ pc' = NextAfterCall(retry_outcome')
                  /\ UNCHANGED caught
          /\ client_log' = [client_log EXCEPT
                 !.answers = Append(@, answer),
                 !.last_ok_at = IF answer.kind = "ok" THEN now ELSE @,
                 !.last_ok = IF answer.kind = "ok" THEN endpoint ELSE @]
    /\ UNCHANGED <<coreVars, samplerVars, seedVars, reconcileVars, attempt, endpoint, now>>

\* await sleep(retryAfter * 1000); if (attempt === maxRetries) throw error;
\* then attempt++ and the test of the for loop.
RetrySleep ==
    /\ pc = "retry_sleep"
    /\ now' = now + retryAfter(caught) * 1000
    /\ client_log' = [client_log EXCEPT !.sleeps = Append(@, retryAfter(caught) * 1000)]
    /\ IF Exhausted(attempt, maxRetries)
       THEN /\ retry_outcome' = Thrown(caught)
            /\ pc' = NextAfterCall(retry_outcome')
            /\ UNCHANGED attempt
       ELSE IF NextAttempt(attempt) <= maxRetries
       THEN /\ attempt' = NextAttempt(attempt)
            /\ pc' = "api_call"
            /\ UNCHANGED retry_outcome
       ELSE /\ attempt' = NextAttempt(attempt)
            /\ retry_outcome' = Thrown(AfterRetriesError)
            /\ pc' = NextAfterCall(retry_outcome')
    /\ UNCHANGED <<coreVars, samplerVars, seedVars, reconcileVars, caught, endpoint>>

\* await sleep(RATE_LIMIT_DELAY), the line after the awaited call.
FixedDelay ==
    /\ pc = "fixed_delay"
    /\ now' = now + DelayAfter(endpoint)
    /\ pc' = "fetch_idle"
    /\ UNCHANGED <<coreVars, samplerVars, seedVars, reconcileVars, attempt, caught, retry_outcome, endpoint, client_log>>

(* ------- PlayerEnricher: fetchAndSavePlayerAccounts / ...Leagues ------- *)
\* What a lookup through retryOnRateLimit can end in: an error thrown (not
\* found, throttling retries exhausted, another status, no response at
\* all), a body the schema rejects, or a valid body.
NotFoundError == [axios |-> TRUE, status |-> 404, retry_after |-> NoHint]
LookupErrors ==
    {NotFoundError, [axios |-> TRUE, status |-> 429, retry_after |-> NoHint]}
    \cup OtherErrors
LookupFailures ==
    {[kind |-> "rejected", error |-> e, body |-> <<>>] : e \in LookupErrors}
    \cup {[kind |-> "invalid", error |-> NoError, body |-> <<>>]}
NoAnswer == [kind |-> "none", error |-> NoError, body |-> <<>>]

\* RiotAccountSchema: { puuid, gameName, tagLine }
GameNames == <<"Alpha", "Beta", "Gamma", "Delta">>
RiotAccount(puuid, v) == [puuid |-> puuid, gameName |-> GameNames[v], tagLine |-> "SEA"]
AccountAnswers(puuid, max_values) ==
    LookupFailures
    \cup {[kind |-> "ok", error |-> NoError, body |-> <<RiotAccount(puuid, v)>>] :
             v \in 1..max_values}

\* RiotLeagueEntriesSchema: an array of entries, one per queue type the
\* player is ranked in.
LeagueQueues == {"RANKED_TFT", "RANKED_TFT_TURBO"}
LeagueTiers == <<"GOLD", "PLATINUM", "EMERALD", "DIAMOND">>
RiotLeagueEntry(puuid, queueType, v) ==
    [puuid |-> puuid, queueType |-> queueType, tier |-> LeagueTiers[v],
     rank |-> "II", leaguePoints |-> 10 * v, wins |-> v, losses |-> v - 1,
     veteran |-> (v = 1), inactive |-> FALSE, freshBlood |-> (v = 2),
     hotStreak |-> (v # 1)]
LeagueBodies(puuid, max_entries, max_values) ==
    {b \in SeqsUpTo({RiotLeagueEntry(puuid, q, v) :
                        q \in LeagueQueues, v \in 1..max_values}, max_entries) :
        \A i, j \in 1..Len(b) : b[i].queueType = b[j].queueType => i = j}
LeagueAnswers(puuid, max_entries, max_values) ==
    LookupFailures
    \cup {[kind |-> "ok", error |-> NoError, body |-> b] :
             b \in LeagueBodies(puuid, max_entries, max_values)}

\* league_entries.find(entry => entry.queueType === 'RANKED_TFT')
FirstEntry(league_entries, queueType) ==
    IF league_entries = <<>> THEN <<>> ELSE <<league_entries[1]>>
find(league_entries, queueType) ==
    LET hits == {i \in 1..Len(league_entries) :
                    league_entries[i].queueType = queueType}
    IN IF hits = {} THEN <<>>
       ELSE <<league_entries[CHOOSE i \in hits : \A j \in hits : i <= j]>>

\* fetchPlayerAccount: the parsed account, or null from the catch.
fetchPlayerAccount(answer) ==
    IF answer.kind = "ok" THEN answer.body ELSE <<>>

\* fetchPlayerLeague: the RANKED_TFT entry of the parsed body, or null when
\* there is none or from the catch.
fetchPlayerLeague(answer) ==
    IF answer.kind = "ok" THEN find(answer.body, "RANKED_TFT") ELSE <<>>

\* if (account) { ... } has no else: the for-of takes the next id.
StopAfterNull(k, n) == n + 1
NextIdAfterNull(k, n) == k + 1

\* success_count++ stands after the awaited callback, inside the try.
CountInvoked(count, saved) == count + 1
CountSaved(count, saved) == IF saved THEN count + 1 ELSE count

\* The catch around the callback logs; the for-of takes the next id.
StopAfterSaveFailure(k, n, saved) == IF saved THEN k + 1 ELSE n + 1
NextIdAfterSave(k, n, saved) == k + 1

Skipped(puuid) == [puuid |-> puuid, fetched |-> FALSE, saved |-> "not_invoked"]
Handed(puuid, saved) ==
    [puuid |-> puuid, fetched |-> TRUE, saved |-> IF saved THEN "ok" ELSE "failed"]

EnrichIdle ==
    /\ enrich_ids = <<>>
    /\ enrich_k = 1
    /\ enrich_answer = NoAnswer
    /\ enrich_record = <<>>
    /\ enrich_count = 0
    /\ enrich_return = -1
    /\ enrich_log = <<>>

\* The locals of a fetchAndSave... call die when its caller returns.
EnrichLocalsDie ==
    /\ enrich_ids' = <<>>
    /\ enrich_k' = 1
    /\ enrich_answer' = NoAnswer
    /\ enrich_record' = <<>>
    /\ enrich_count' = 0
    /\ enrich_return' = -1
    /\ enrich_log' = <<>>

\* const account = await fetchPlayerAccount(puuid); if (account) { ...
AccountFetch(max_values) ==
    /\ pc = "account_loop"
    /\ enrich_k <= Len(enrich_ids)
    /\ LET puuid == enrich_ids[enrich_k] IN
       \E answer \in AccountAnswers(puuid, max_values) :
          /\ enrich_answer' = answer
          /\ enrich_record' = fetchPlayerAccount(answer)
          /\ IF enrich_record' = <<>>
             THEN /\ enrich_k' = NextIdAfterNull(enrich_k, Len(enrich_ids))
                  /\ enrich_log' = Append(enrich_log, Skipped(puuid))
                  /\ UNCHANGED pc
             ELSE /\ pc' = "account_save"
                  /\ UNCHANGED <<enrich_k, enrich_log>>
    /\ Awaited("account")
    /\ UNCHANGED <<cliVars, unitVars, storeVars, collectVars, streamVars, pipeVars,
                   enrich_ids, enrich_count, enrich_return, hist>>

\* try { await on_account_fetched(account); success_count++; } catch { log }
\* with the callback of enrichPlayerAccounts:
\* updatePlayerAccount(account.puuid, account.gameName, account.tagLine).
AccountSave ==
    /\ pc = "account_save"
    /\ LET account == Head(enrich_record) IN
       \E saved \in BOOLEAN :
          /\ players' = IF saved
                        THEN updatePlayerAccount(players, account.puuid,
                                                 account.gameName, account.tagLine)
                        ELSE players
          /\ enrich_count' = CountSaved(enrich_count, saved)
          /\ enrich_log' = Append(enrich_log, Handed(enrich_ids[enrich_k], saved))
          /\ enrich_k' = NextIdAfterSave(enrich_k, Len(enrich_ids), saved)
    /\ enrich_record' = <<>>
    /\ pc' = "account_loop"
    /\ Awaited("updatePlayerAccount")
    /\ UNCHANGED <<cliVars, unitVars, matches, links, collectVars, streamVars, pipeVars,
                   enrich_ids, enrich_answer, enrich_return, hist>>

\* return success_count;
AccountReturn ==
    /\ pc = "account_loop"
    /\ enrich_k > Len(enrich_ids)
    /\ enrich_return' = enrich_count
    /\ pc' = "account_return"
    /\ UNCHANGED awaitVars
    /\ UNCHANGED <<cliVars, unitVars, storeVars, collectVars, streamVars, pipeVars,
                   enrich_ids, enrich_k, enrich_answer, enrich_record, enrich_count,
                   enrich_log, hist>>

\* const league = await fetchPlayerLeague(puuid); if (league) { ...
LeagueFetch(max_entries, max_values) ==
    /\ pc = "league_loop"
    /\ enrich_k <= Len(enrich_ids)
    /\ LET puuid == enrich_ids[enrich_k] IN
       \E answer \in LeagueAnswers(puuid, max_entries, max_values) :
          /\ enrich_answer' = answer
          /\ enrich_record' = fetchPlayerLeague(answer)
          /\ IF enrich_record' = <<>>
             THEN /\ enrich_k' = NextIdAfterNull(enrich_k, Len(enrich_ids))
                  /\ enrich_log' = Append(enrich_log, Skipped(puuid))
                  /\ UNCHANGED pc
             ELSE /\ pc' = "league_save"
                  /\ UNCHANGED <<enrich_k, enrich_log>>
    /\ Awaited("league")
    /\ UNCHANGED <<cliVars, unitVars, storeVars, collectVars, streamVars, pipeVars,
                   enrich_ids, enrich_count, enrich_return, hist>>

\* try { await on_league_fetched(league); success_count++; } catch { log }
\* with the callback of enrichPlayerLeagues: updatePlayerLeague(league.puuid,
\* { tier: league.tier, rank: league.rank, ... }).
LeagueSave ==
    /\ pc = "league_save"
    /\ LET league == Head(enrich_record) IN
       \E saved \in BOOLEAN :
          /\ players' = IF saved
                        THEN updatePlayerLeague(players, league.puuid, league)
                        ELSE players
          /\ enrich_count' = CountSaved(enrich_count, saved)
          /\ enrich_log' = Append(enrich_log, Handed(enrich_ids[enrich_k], saved))
          /\ enrich_k' = NextIdAfterSave(enrich_k, Len(enrich_ids), saved)
    /\ enrich_record' = <<>>
    /\ pc' = "league_loop"
    /\ Awaited("updatePlayerLeague")
    /\ UNCHANGED <<cliVars, unitVars, matches, links, collectVars, streamVars, pipeVars,
                   enrich_ids, enrich_answer, enrich_return, hist>>

LeagueReturn ==
    /\ pc = "league_loop"
    /\ enrich_k > Len(enrich_ids)
    /\ enrich_return' = enrich_count
    /\ pc' = "league_return"
    /\ UNCHANGED awaitVars
    /\ UNCHANGED <<cliVars, unitVars, storeVars, collectVars, streamVars, pipeVars,
                   enrich_ids, enrich_k, enrich_answer, enrich_record, enrich_count,
                   enrich_log, hist>>

(* -------------------- command line (index.ts 69-130) ------------------- *)
\* The words a command line is made of.  A tier argument and a flag
\* argument are words; the match goal argument is a string of characters.
TierWords == Tiers \cup {"all", "mythic"}
FlagWords == {"on", "off", "ON", "yes"}
GoalChars == {"0", "2", "-", "x"}
GoalWords == SeqsUpTo(GoalChars, MaxGoalLen)

\* [...HIGH_TIERS, ...LOW_TIERS]
AllTiers == <<"challenger", "diamond">>

\* String.prototype.toLowerCase
toLowerCase(word) == IF word = "ON" THEN "on" ELSE word

\* parseInt(string): an optional sign, then the longest run of digits at
\* the start; what follows the digits is ignored; NaN without a digit.
IsDigit(c) == c \in {"0", "2"}
DigitValue(c) == IF c = "0" THEN 0 ELSE 2
RECURSIVE DigitsPrefix(_)
DigitsPrefix(str) ==
    IF str = <<>> \/ ~IsDigit(Head(str)) THEN <<>>
    ELSE <<Head(str)>> \o DigitsPrefix(Tail(str))
RECURSIVE ValueOf(_)
ValueOf(digits) ==
    IF digits = <<>> THEN 0
    ELSE 10 * ValueOf(SubSeq(digits, 1, Len(digits) - 1)) + DigitValue(digits[Len(digits)])
NaN == [nan |-> TRUE, value |-> 0]
parseInt(str) ==
    LET negative == str # <<>> /\ Head(str) = "-"
        digits == DigitsPrefix(IF negative THEN Tail(str) ELSE str)
    IN IF digits = <<>> THEN NaN
       ELSE [nan |-> FALSE,
             value |-> IF negative THEN 0 - ValueOf(digits) ELSE ValueOf(digits)]

\* TierSchema.safeParse(tier_arg).success
TierSchema(tier_arg) == tier_arg \in HIGH_TIERS \cup LOW_TIERS

\* The command line is not looked at.
CliIdle ==
    /\ args = <<>>
    /\ exit_code = -1
    /\ cli_error = "none"

\* throw new Error(...) at the top level of the module, and process.exit(1):
\* the process ends with exit code 1.
Exit1(error) ==
    /\ exit_code' = 1
    /\ cli_error' = error
    /\ pc' = "exited"

\* if (args.length < 4) { usage; process.exit(1); }
CliCheckArgs ==
    /\ pc = "cli_start"
    /\ IF Len(args) < 4
       THEN Exit1("usage")
       ELSE /\ pc' = "cli_goal"
            /\ UNCHANGED <<exit_code, cli_error>>
    /\ UNCHANGED <<args, tiers, match_goal, enrich_account, enrich_league, storeVars,
                   collectVars, streamVars, enrichVars, pipeVars, hist, awaitVars, unitVars>>

\* const match_goal = parseInt(match_goal_arg || '');
\* if (isNaN(match_goal) || match_goal <= 0) throw ...
CliParseGoal ==
    /\ pc = "cli_goal"
    /\ LET match_goal_arg == args[Len(args) - 2]
           parsed == parseInt(match_goal_arg)
       IN IF parsed.nan \/ parsed.value <= 0
          THEN /\ Exit1("match_goal")
               /\ UNCHANGED match_goal
          ELSE /\ match_goal' = parsed.value
               /\ pc' = "cli_flags"
               /\ UNCHANGED <<exit_code, cli_error>>
    /\ UNCHANGED <<args, tiers, enrich_account, enrich_league, storeVars,
                   collectVars, streamVars, enrichVars, pipeVars, hist, awaitVars, unitVars>>

\* const enrich_account = enrich_account_arg === 'on'; ... and the two
\* checks ['on', 'off'].includes(...).
CliParseFlags ==
    /\ pc = "cli_flags"
    /\ LET enrich_account_arg == toLowerCase(args[Len(args) - 1])
           enrich_league_arg == toLowerCase(args[Len(args)])
       IN /\ enrich_account' = (enrich_account_arg = "on")
          /\ enrich_league' = (enrich_league_arg = "on")
          /\ IF enrich_account_arg \notin {"on", "off"}
             THEN Exit1("ENRICH_ACCOUNT")
             ELSE IF enrich_league_arg \notin {"on", "off"}
             THEN Exit1("ENRICH_LEAGUE")
             ELSE /\ pc' = "cli_tiers"
                  /\ UNCHANGED <<exit_code, cli_error>>
    /\ UNCHANGED <<args, tiers, match_goal, storeVars,
                   collectVars, streamVars, enrichVars, pipeVars, hist, awaitVars, unitVars>>

\* The tiers: "all" alone, or every argument a tier name.
CliParseTiers ==
    /\ pc = "cli_tiers"
    /\ LET tier_args == SubSeq(args, 1, Len(args) - 3) IN
       IF Len(tier_args) = 1 /\ toLowerCase(tier_args[1]) = "all"
       THEN /\ tiers' = AllTiers
            /\ pc' = "run_pipeline"
            /\ UNCHANGED <<exit_code, cli_error>>
       ELSE IF \E k \in 1..Len(tier_args) : ~TierSchema(tier_args[k])
       THEN /\ Exit1("tier")
            /\ UNCHANGED tiers
       ELSE /\ tiers' = tier_args
            /\ pc' = "run_pipeline"
            /\ UNCHANGED <<exit_code, cli_error>>
    /\ UNCHANGED <<args, match_goal, enrich_account, enrich_league, storeVars,
                   collectVars, streamVars, enrichVars, pipeVars, hist, awaitVars, unitVars>>

\* runPipeline(); at the end of the module.
RunPipeline ==
    /\ pc = "run_pipeline"
    /\ pc' = "stage1_fetch"
    /\ UNCHANGED <<coreVars, unitVars>>

(* ------------------- component specifications -------------------------- *)
RunIdle ==
    /\ tiers = <<>>
    /\ enrich_account = FALSE
    /\ enrich_league = FALSE
    /\ tier_i = 1
    /\ raw_selected = <<>>
    /\ all_puuid_seeds = {}
    /\ collect_k = 1
    /\ collect_result = "none"
    /\ stream_i = 1
    /\ success_count = 0
    /\ match_result = <<>>
    /\ cb_result = "none"
    /\ stream_return = -1
    /\ hist = HistInit
    /\ AwaitIdle

PipelineIdle ==
    /\ RunIdle
    /\ CliIdle

CoreIdle ==
    /\ PipelineIdle
    /\ EnrichIdle

StoreEmpty ==
    /\ players = <<>>
    /\ matches = <<>>
    /\ links = {}

IdleInit ==
    /\ CoreIdle
    /\ match_goal = MATCHES_PER_PLAYER
    /\ StoreEmpty
    /\ ClientIdle
    /\ SamplerIdle
    /\ SeedIdle
    /\ ReconcileIdle

\* One call collect(playerIds), for every set of player ids.
InitCollect ==
    /\ RerunIdle
    /\ IdleInit
    /\ pc = "collect_call"
    /\ puuid_seed_list \in InjSeqsUpTo(SeedIds, MaxSeeds)
    /\ match_id_list = <<>>

NextCollect == CollectEnter \/ CollectIter(MaxIdsPerCall) \/ CollectReturn

SpecCollect == InitCollect /\ [][NextCollect]_vars

\* One call stream(matchIds, onMatch), for every set of match ids and
\* every behaviour of the callback.
InitStream ==
    /\ RerunIdle
    /\ IdleInit
    /\ pc = "stream_call"
    /\ puuid_seed_list = <<>>
    /\ match_id_list \in InjSeqsUpTo(MatchIds, NumMatches)

NextStream ==
    StreamEnter \/ StreamFetch \/ OnMatchAny \/ StreamAfterOnMatch \/ StreamReturn

SpecStream == InitStream /\ [][NextStream]_vars

\* A run of the client: up to MaxCalls calls of fetch functions, one after
\* the other, whatever the upstream answers.
InitClient ==
    /\ RerunIdle
    /\ IdleInit
    /\ pc = "fetch_idle"
    /\ puuid_seed_list = <<>>
    /\ match_id_list = <<>>

NextClient == FetchCall \/ ApiCall \/ RetrySleep \/ FixedDelay

SpecClient == InitClient /\ [][NextClient]_vars

\* One call selectRandomPlayers(players, match_goal), for every list of
\* distinct players, every positive goal and every sequence of random draws.
SampleGoals == 1..(MaxSample * MATCHES_PER_PLAYER + 1)
InitSampler ==
    /\ RerunIdle
    /\ CoreIdle
    /\ StoreEmpty
    /\ ClientIdle
    /\ SeedIdle
    /\ ReconcileIdle
    /\ pc = "select_call"
    /\ puuid_seed_list = <<>>
    /\ match_id_list = <<>>
    /\ match_goal \in SampleGoals
    /\ sample_players \in InjSeqsUpTo(1..MaxSample, MaxSample)
    /\ shuffled = <<>>
    /\ shuffle_i = 0
    /\ selected = <<>>

NextSampler == SelectCall \/ ShuffleStep \/ SelectSlice

SpecSampler == InitSampler /\ [][NextSampler]_vars

\* One call fecthPlayersBasedTier(tier, divisions, pages), for every tier
\* and all lists of distinct divisions and of distinct pages.
InitSeed ==
    /\ RerunIdle
    /\ CoreIdle
    /\ match_goal = MATCHES_PER_PLAYER
    /\ StoreEmpty
    /\ ClientIdle
    /\ SamplerIdle
    /\ ReconcileIdle
    /\ pc = "seed_call"
    /\ puuid_seed_list = <<>>
    /\ match_id_list = <<>>
    /\ fetch_tier \in Tiers
    /\ divisions \in InjSeqsUpTo(1..MaxDivisions, MaxDivisions)
    /\ pages \in InjSeqsUpTo(1..MaxPages, MaxPages)
    /\ div_k = 1
    /\ page_k = 1
    /\ allPlayers = <<>>
    /\ seed_result = SeedNoResult
    /\ seed_log = <<>>

NextSeed == FetchHighTier \/ LowTierEnter \/ FetchLowTierPage \/ NextDivision \/ LowTierReturn

SpecSeed == InitSeed /\ [][NextSeed]_vars

\* Calls of deletePlayersWithoutMatches() on every store the schema admits:
\* any players, any matches, and links that refer to stored rows.
StoredRows == {PlayerStub, NewSeedRow("diamond")}
StoredMatch(m) == [data |-> m, is_processed |-> FALSE, region |-> RIOT_MATCH_REGION]
InitReconcile ==
    /\ RerunIdle
    /\ CoreIdle
    /\ match_goal = MATCHES_PER_PLAYER
    /\ ClientIdle
    /\ SamplerIdle
    /\ SeedIdle
    /\ ReconcileIdle
    /\ pc = "reconcile_call"
    /\ puuid_seed_list = <<>>
    /\ match_id_list = <<>>
    /\ \E P \in SUBSET Puuids : players \in [P -> StoredRows]
    /\ \E M \in SUBSET MatchIds : matches = [m \in M |-> StoredMatch(m)]
    /\ links \in SUBSET ((DOMAIN players) \X (DOMAIN matches))

NextReconcile == DeletePlayersWithoutMatches \/ ReconcileAgain

SpecReconcile == InitReconcile /\ [][NextReconcile]_vars

\* One call fetchAndSavePlayerAccounts(puuids, callback) or
\* fetchAndSavePlayerLeagues(puuids, callback) with the callback of
\* index.ts, for every list of distinct ids and every store of players.
InitEnrich ==
    /\ RerunIdle
    /\ PipelineIdle
    /\ match_goal = MATCHES_PER_PLAYER
    /\ ClientIdle
    /\ SamplerIdle
    /\ SeedIdle
    /\ ReconcileIdle
    /\ pc \in {"account_loop", "league_loop"}
    /\ puuid_seed_list = <<>>
    /\ match_id_list = <<>>
    /\ \E P \in SUBSET Puuids : players \in [P -> StoredRows]
    /\ matches = <<>>
    /\ links = {}
    /\ enrich_ids \in InjSeqsUpTo(Puuids, NumPlayers)
    /\ enrich_k = 1
    /\ enrich_answer = NoAnswer
    /\ enrich_record = <<>>
    /\ enrich_count = 0
    /\ enrich_return = -1
    /\ enrich_log = <<>>

NextEnrich ==
    \/ AccountFetch(MaxValues) \/ AccountSave \/ AccountReturn
    \/ LeagueFetch(MaxEntries, MaxValues) \/ LeagueSave \/ LeagueReturn

SpecEnrich == InitEnrich /\ [][NextEnrich]_vars
(* --------------------- the pipeline: runPipeline ----------------------- *)
\* for (let i = 0; i < tiers.length; i++): where control goes when the
\* body for tier i ends (normally or by continue).
ReconcileInsideLoop(i) == "stage3"
AfterTier(i) == IF i < Len(tiers) THEN "stage1_fetch" ELSE "stage3"

\* Where control goes after Stage 3, and after Stage 4.
LeagueFirst(acc, lea) ==
    IF lea THEN "stage5_query" ELSE IF acc THEN "stage4_query" ELSE "done"
AfterStage3(acc, lea) ==
    IF acc THEN "stage4_query" ELSE IF lea THEN "stage5_query" ELSE "done"
AlwaysStage5(lea) == "stage5_query"
AfterStage4(lea) == IF lea THEN "stage5_query" ELSE "done"

\* An error thrown by a stage of runPipeline (a rethrown fetch or store
\* error) leaves the try block: control is in the catch of runPipeline.
ResumeAtCleanup(position) == "stage3"
Propagate(position) == "fatal"

\* catch (error) { console.error(...); process.exit(1); }
PipelineExit ==
    /\ pc = "fatal"
    /\ exit_code' = 1
    /\ pc' = "exited"
    /\ UNCHANGED <<args, cli_error, tiers, match_goal, enrich_account, enrich_league,
                   storeVars, collectVars, streamVars, enrichVars, pipeVars, hist,
                   awaitVars, unitVars>>

\* The locals of one pass of the tier loop (and of the calls it made) die
\* when the pass ends; what was observed of those calls is cleared with them.
TierLocalsDie ==
    /\ raw_selected' = <<>>
    /\ puuid_seed_list' = <<>>
    /\ collect_k' = 1
    /\ match_id_list' = <<>>
    /\ collect_result' = "none"
    /\ hist' = [hist EXCEPT !.id_requests = ZeroPerPlayer, !.reported = ZeroPerMatch,
                            !.id_failed = 0,
                            !.s_requests = ZeroPerMatch, !.s_on_match = ZeroPerMatch,
                            !.s_ok = {}, !.held_at_request = 0]

\* collectTierBasedPlayers, step 1: fetchPlayersFromTier, selectRandomPlayers,
\* mapRiotPlayersToDatabase.  A high-tier fetch rethrows its failure; a
\* low-tier fetch skips failed pages and never throws.
Stage1Fetch ==
    /\ pc = "stage1_fetch"
    /\ LET tier == tiers[tier_i] IN
       \E failed \in BOOLEAN :
          IF failed /\ isHighTier(tier)
          THEN /\ pc' = Propagate(pc)
               /\ UNCHANGED raw_selected
          ELSE /\ \E raw_players \in InjSeqsUpTo(Puuids, MaxLadder) :
                     raw_selected' \in selectRandomPlayers(raw_players, match_goal)
               /\ pc' = "stage1_upsert"
    /\ Awaited("ladder")
    /\ UNCHANGED <<cliVars, unitVars, storeVars, collectVars, streamVars, enrichVars,
                   tier_i, all_puuid_seeds, hist>>

\* if (puuid_seed_list.size === 0) { ...; continue; }
SeedsAssumed(seed_list) == FALSE
NoSeeds(seed_list) == Len(seed_list) = 0

\* collectTierBasedPlayers, steps 2-3, and the body of the tier loop up to
\* the call of collectMatchesFromPlayers.
Stage1Upsert ==
    /\ pc = "stage1_upsert"
    /\ \E ok \in BOOLEAN :
          IF ok
          THEN /\ players' = upsertPlayers(players, raw_selected, tiers[tier_i])
               /\ puuid_seed_list' = raw_selected
               /\ IF NoSeeds(puuid_seed_list')
                  THEN /\ pc' = AfterTier(tier_i)
                       /\ tier_i' = tier_i + 1
                       /\ UNCHANGED all_puuid_seeds
                  ELSE /\ all_puuid_seeds' = all_puuid_seeds \cup Range(raw_selected)
                       /\ pc' = "collect_call"
                       /\ UNCHANGED tier_i
          ELSE /\ pc' = Propagate(pc)
               /\ UNCHANGED <<players, puuid_seed_list, tier_i, all_puuid_seeds>>
    /\ Awaited("upsertPlayers")
    /\ UNCHANGED <<cliVars, unitVars, matches, links, collect_k, match_id_list, collect_result,
                   streamVars, enrichVars, raw_selected, hist>>

\* collectMatchesFromPlayers after collectMatchIdsFromPlayers has returned.
AfterCollect ==
    /\ pc = "collect_return"
    /\ IF collect_result # "ok"
       THEN /\ pc' = Propagate(pc)
            /\ UNCHANGED tier_i
       ELSE IF Len(match_id_list) = 0
       THEN /\ pc' = AfterTier(tier_i)
            /\ tier_i' = tier_i + 1
       ELSE /\ pc' = "stream_call"
            /\ UNCHANGED tier_i
    /\ IF pc' = "stream_call"
       THEN UNCHANGED <<collectVars, raw_selected, hist>>
       ELSE TierLocalsDie
    /\ UNCHANGED awaitVars
    /\ UNCHANGED <<cliVars, unitVars, storeVars, streamVars, enrichVars, all_puuid_seeds>>

\* The callback given to fetchAndSaveMatchDetails (index.ts 201-226).
MatchDB(match_result_1) ==
    [match_id |-> match_result_1.matchId, data |-> match_result_1.fullMatchData,
     is_processed |-> FALSE, region |-> RIOT_MATCH_REGION]

LinksOf(match_result_1) ==
    {<<puuid, match_result_1.matchId>> : puuid \in match_result_1.playerPuuids}

\* The order of the three writes in the callback.
LinksBeforeStubs(step) ==
    IF step = "on_match" THEN "cb_links"
    ELSE IF step = "cb_links" THEN "cb_stubs" ELSE "cb_ok"
CbNext(step) ==
    IF step = "on_match" THEN "cb_stubs"
    ELSE IF step = "cb_stubs" THEN "cb_links" ELSE "cb_ok"

CbFinishEarly(step) ==
    /\ pc' = "on_match_returned"
    /\ cb_result' = "ok"
CbAdvance(step) ==
    /\ pc' = IF CbNext(step) = "cb_ok" THEN "on_match_returned" ELSE CbNext(step)
    /\ cb_result' = IF CbNext(step) = "cb_ok" THEN "ok" ELSE cb_result

CbEscalate ==
    /\ pc' = "fatal"
    /\ cb_result' = "throw"
CbThrow ==
    /\ pc' = "on_match_returned"
    /\ cb_result' = "throw"

CbUpsertMatch ==
    /\ pc = "on_match"
    /\ \E ok \in BOOLEAN :
          IF ok
          THEN /\ matches' = upsertMatch(matches, MatchDB(Head(match_result)))
               /\ CbAdvance("on_match")
          ELSE /\ CbThrow
               /\ UNCHANGED matches
    /\ Awaited("upsertMatch")
    /\ UNCHANGED <<cliVars, unitVars, players, links, collectVars, enrichVars, pipeVars,
                   stream_i, success_count, match_result, stream_return, hist>>

\* upsertPlayerStubs returns before any store call when the list is empty.
CbUpsertStubs ==
    /\ pc = "cb_stubs"
    /\ LET puuids == Head(match_result).playerPuuids IN
       \E ok \in BOOLEAN :
          IF ok \/ puuids = {}
          THEN /\ players' = upsertPlayerStubs(players, puuids)
               /\ CbAdvance("cb_stubs")
          ELSE /\ CbThrow
               /\ UNCHANGED players
    /\ IF Head(match_result).playerPuuids = {}
       THEN UNCHANGED awaitVars
       ELSE Awaited("upsertPlayerStubs")
    /\ UNCHANGED <<cliVars, unitVars, matches, links, collectVars, enrichVars, pipeVars,
                   stream_i, success_count, match_result, stream_return, hist>>

\* upsertPlayerMatchLinks returns before any store call when there is no link.
CbUpsertLinks ==
    /\ pc = "cb_links"
    /\ LET new_links == LinksOf(Head(match_result)) IN
       \E ok \in BOOLEAN :
          IF new_links = {} \/ (ok /\ ForeignKeysHold(new_links, players, matches))
          THEN /\ links' = upsertPlayerMatchLinks(links, new_links)
               /\ CbAdvance("cb_links")
          ELSE /\ CbThrow
               /\ UNCHANGED links
    /\ IF LinksOf(Head(match_result)) = {}
       THEN UNCHANGED awaitVars
       ELSE Awaited("upsertPlayerMatchLinks")
    /\ UNCHANGED <<cliVars, unitVars, players, matches, collectVars, enrichVars, pipeVars,
                   stream_i, success_count, match_result, stream_return, hist>>

\* collectMatchesFromPlayers returns; the tier loop takes the next tier.
AfterStream ==
    /\ pc = "stream_return"
    /\ pc' = AfterTier(tier_i)
    /\ tier_i' = tier_i + 1
    /\ TierLocalsDie
    /\ stream_i' = 1
    /\ success_count' = 0
    /\ stream_return' = -1
    /\ cb_result' = "none"
    /\ UNCHANGED awaitVars
    /\ UNCHANGED <<cliVars, unitVars, storeVars, enrichVars, all_puuid_seeds, match_result>>

\* Stage 3: cleanUpOrphanedPlayers -> deletePlayersWithoutMatches.
Stage3Reconcile ==
    /\ pc = "stage3"
    /\ \E ok \in BOOLEAN :
          IF ok
          THEN /\ players' = delete_orphaned_players(players, links)
               /\ links' = CascadeLinks(links, players')
               /\ hist' = [hist EXCEPT !.stage3_done = TRUE]
               /\ pc' = AfterStage3(enrich_account, enrich_league)
          ELSE /\ pc' = Propagate(pc)
               /\ UNCHANGED <<players, links, hist>>
    /\ Awaited("delete_orphaned_players")
    /\ UNCHANGED <<cliVars, unitVars, matches, collectVars, streamVars, enrichVars, pipeVars>>

\* Stage 4: enrichPlayerAccounts up to the call of fetchAndSavePlayerAccounts.
Stage4Query ==
    /\ pc = "stage4_query"
    /\ \E ok \in BOOLEAN :
          IF ok
          THEN /\ IF DOMAIN players = {}
                  THEN /\ pc' = AfterStage4(enrich_league)
                       /\ hist' = [hist EXCEPT !.stage4_done = TRUE]
                       /\ UNCHANGED enrich_ids
                  ELSE /\ enrich_ids' \in getAllPlayerPuuids(players)
                       /\ pc' = "account_loop"
                       /\ UNCHANGED hist
          ELSE /\ pc' = Propagate(pc)
               /\ UNCHANGED <<enrich_ids, hist>>
    /\ Awaited("getAllPlayerPuuids")
    /\ UNCHANGED <<cliVars, unitVars, storeVars, collectVars, streamVars, pipeVars,
                   enrich_k, enrich_answer, enrich_record, enrich_count,
                   enrich_return, enrich_log>>

\* enrichPlayerAccounts after fetchAndSavePlayerAccounts has returned.
AfterAccounts ==
    /\ pc = "account_return"
    /\ hist' = [hist EXCEPT !.stage4_done = TRUE]
    /\ pc' = AfterStage4(enrich_league)
    /\ EnrichLocalsDie
    /\ UNCHANGED awaitVars
    /\ UNCHANGED <<cliVars, unitVars, storeVars, collectVars, streamVars, pipeVars>>

\* Stage 5: enrichPlayerLeagues up to the call of fetchAndSavePlayerLeagues.
Stage5Query ==
    /\ pc = "stage5_query"
    /\ \E ok \in BOOLEAN :
          IF ok
          THEN /\ IF DOMAIN players = {}
                  THEN /\ pc' = "done"
                       /\ hist' = [hist EXCEPT !.stage5_done = TRUE]
                       /\ UNCHANGED enrich_ids
                  ELSE /\ enrich_ids' \in getAllPlayerPuuids(players)
                       /\ pc' = "league_loop"
                       /\ UNCHANGED hist
          ELSE /\ pc' = Propagate(pc)
               /\ UNCHANGED <<enrich_ids, hist>>
    /\ Awaited("getAllPlayerPuuids")
    /\ UNCHANGED <<cliVars, unitVars, storeVars, collectVars, streamVars, pipeVars,
                   enrich_k, enrich_answer, enrich_record, enrich_count,
                   enrich_return, enrich_log>>

\* enrichPlayerLeagues after fetchAndSavePlayerLeagues has returned.
AfterLeagues ==
    /\ pc = "league_return"
    /\ hist' = [hist EXCEPT !.stage5_done = TRUE]
    /\ pc' = "done"
    /\ EnrichLocalsDie
    /\ UNCHANGED awaitVars
    /\ UNCHANGED <<cliVars, unitVars, storeVars, collectVars, streamVars, pipeVars>>

\* A downstream consumer of the matches table marks a stored match as
\* processed (the is_processed column is reserved for it).
ConsumerMarksProcessed ==
    /\ pc \notin {"done", "fatal", "exited"}
    /\ \E m \in DOMAIN matches :
          /\ ~matches[m].is_processed
          /\ matches' = [matches EXCEPT ![m] = [@ EXCEPT !.is_processed = TRUE]]
    /\ UNCHANGED awaitVars
    /\ UNCHANGED <<pc, cliVars, unitVars, players, links, collectVars, streamVars, enrichVars,
                   pipeVars, hist>>

\* collectMatchesFromPlayers, step 2, for one match id: fetchAndSaveMatchDetails
\* with the callback of index.ts, on every store the schema admits, whose
\* players are seed rows, stubs and enriched rows.
EnrichedRow ==
    LET league == RiotLeagueEntry(1, "RANKED_TFT", 1)
        account == RiotAccount(1, 1)
        stub == [p \in {1} |-> PlayerStub]
    IN updatePlayerAccount(updatePlayerLeague(stub, 1, league), 1,
                           account.gameName, account.tagLine)[1]
InitPersist ==
    /\ RerunIdle
    /\ CoreIdle
    /\ match_goal = MATCHES_PER_PLAYER
    /\ ClientIdle
    /\ SamplerIdle
    /\ SeedIdle
    /\ ReconcileIdle
    /\ pc = "stream_call"
    /\ puuid_seed_list = <<>>
    /\ \E m \in MatchIds : match_id_list = <<m>>
    /\ \E P \in SUBSET Puuids : players \in [P -> StoredRows \cup {EnrichedRow}]
    /\ \E M \in SUBSET MatchIds : matches = [m \in M |-> StoredMatch(m)]
    /\ links \in SUBSET ((DOMAIN players) \X (DOMAIN matches))

NextPersist ==
    \/ StreamEnter \/ StreamFetch \/ CbUpsertMatch \/ CbUpsertStubs \/ CbUpsertLinks
    \/ StreamAfterOnMatch \/ StreamReturn

SpecPersist == InitPersist /\ [][NextPersist]_vars

\* The same command run again (README, Resume After Failure): the match id
\* is collected again and fetchAndSaveMatchDetails is called for it again.
\* The upstream holds one payload for a match, so a fetch that succeeds
\* delivers the participants it delivered before.
StreamFetchSamePayload ==
    /\ StreamFetch
    /\ pc' = "on_match" =>
          match_result'[Len(match_result')].playerPuuids = upstream_payload

RunRecord(count) ==
    [count |-> count, players |-> players, matches |-> matches, links |-> links]

RerunCommand ==
    /\ pc = "stream_return"
    /\ Len(persist_log) + 1 < MaxRuns
    /\ persist_log' = Append(persist_log, RunRecord(stream_return))
    /\ pc' = "stream_call"
    /\ UNCHANGED <<cliVars, storeVars, collectVars, streamVars, enrichVars, pipeVars,
                   hist, awaitVars, clientVars, samplerVars, seedVars, reconcileVars,
                   upstream_payload>>

InitRerun ==
    /\ CoreIdle
    /\ match_goal = MATCHES_PER_PLAYER
    /\ ClientIdle
    /\ SamplerIdle
    /\ SeedIdle
    /\ ReconcileIdle
    /\ pc = "stream_call"
    /\ puuid_seed_list = <<>>
    /\ \E m \in MatchIds :
          /\ match_id_list = <<m>>
          /\ \E M \in SUBSET {m} : matches = [k \in M |-> StoredMatch(k)]
    /\ \E P \in SUBSET Puuids : players \in [P -> StoredRows \cup {EnrichedRow}]
    /\ links \in SUBSET ((DOMAIN players) \X (DOMAIN matches))
    /\ upstream_payload \in ParticipantSets
    /\ persist_log = <<>>

NextRerun ==
    \/ StreamEnter \/ StreamFetchSamePayload
    \/ CbUpsertMatch \/ CbUpsertStubs \/ CbUpsertLinks
    \/ StreamAfterOnMatch \/ StreamReturn
    \/ RerunCommand

SpecRerun == InitRerun /\ [][NextRerun]_vars

\* The process from its start to its first upstream request: the command
\* line is any list of words, too short, valid or invalid.
InitCli ==
    /\ RerunIdle
    /\ RunIdle
    /\ EnrichIdle
    /\ StoreEmpty
    /\ ClientIdle
    /\ SamplerIdle
    /\ SeedIdle
    /\ ReconcileIdle
    /\ pc = "cli_start"
    /\ match_goal = 0
    /\ exit_code = -1
    /\ cli_error = "none"
    /\ puuid_seed_list = <<>>
    /\ match_id_list = <<>>
    /\ \E tier_args \in SeqsUpTo(TierWords, MaxTiers), match_goal_arg \in GoalWords,
          enrich_account_arg \in FlagWords, enrich_league_arg \in FlagWords :
          args \in {tier_args \o <<match_goal_arg, enrich_account_arg, enrich_league_arg>>,
                    tier_args}

NextCli ==
    \/ CliCheckArgs \/ CliParseGoal \/ CliParseFlags \/ CliParseTiers
    \/ RunPipeline
    \/ Stage1Fetch

SpecCli == InitCli /\ [][NextCli]_vars

\* The state when runPipeline() is called: the command line is parsed and
\* valid, the store is empty.
Init ==
    /\ RerunIdle
    /\ pc = "stage1_fetch"
    /\ tiers \in {t \in SeqsUpTo(Tiers, MaxTiers) : Len(t) >= 1}
    /\ match_goal \in {MATCHES_PER_PLAYER, 2 * MATCHES_PER_PLAYER}
    /\ enrich_account \in BOOLEAN
    /\ enrich_league \in BOOLEAN
    /\ tier_i = 1
    /\ raw_selected = <<>>
    /\ puuid_seed_list = <<>>
    /\ all_puuid_seeds = {}
    /\ collect_k = 1
    /\ match_id_list = <<>>
    /\ collect_result = "none"
    /\ stream_i = 1
    /\ success_count = 0
    /\ match_result = <<>>
    /\ cb_result = "none"
    /\ stream_return = -1
    /\ EnrichIdle
    /\ players = <<>>
    /\ matches = <<>>
    /\ links = {}
    /\ hist = HistInit
    /\ AwaitIdle
    /\ CliIdle
    /\ ClientIdle
    /\ SamplerIdle
    /\ SeedIdle
    /\ ReconcileIdle

Next ==
    \/ Stage1Fetch \/ Stage1Upsert
    \/ CollectEnter \/ CollectIter(PipelineIdsPerCall) \/ CollectReturn \/ AfterCollect
    \/ StreamEnter \/ StreamFetch \/ CbUpsertMatch \/ CbUpsertStubs \/ CbUpsertLinks
    \/ StreamAfterOnMatch \/ StreamReturn \/ AfterStream
    \/ Stage3Reconcile
    \/ Stage4Query \/ AccountFetch(1) \/ AccountSave \/ AccountReturn \/ AfterAccounts
    \/ Stage5Query \/ LeagueFetch(1, 1) \/ LeagueSave \/ LeagueReturn \/ AfterLeagues
    \/ ConsumerMarksProcessed
    \/ PipelineExit

Spec == Init /\ [][Next]_vars

\* A pipeline run under the scheduling of the event loop: a continuation
\* that is ready runs, and every awaited request, store call and timer
\* settles.  The consumer of the matches table is left out: no guard of the
\* program reads the column it writes.  Each upstream request of the run is
\* a call of retryOnRateLimit, which is run here on its own with any
\* answers, throttling at every attempt included.
NextProgram ==
    \/ Stage1Fetch \/ Stage1Upsert
    \/ CollectEnter \/ CollectIter(PipelineIdsPerCall) \/ CollectReturn \/ AfterCollect
    \/ StreamEnter \/ StreamFetch \/ CbUpsertMatch \/ CbUpsertStubs \/ CbUpsertLinks
    \/ StreamAfterOnMatch \/ StreamReturn \/ AfterStream
    \/ Stage3Reconcile
    \/ Stage4Query \/ AccountFetch(1) \/ AccountSave \/ AccountReturn \/ AfterAccounts
    \/ Stage5Query \/ LeagueFetch(1, 1) \/ LeagueSave \/ LeagueReturn \/ AfterLeagues
    \/ PipelineExit

NextRequest == ApiCall \/ RetrySleep \/ FixedDelay

InitLive ==
    \/ Init /\ match_goal = MATCHES_PER_PLAYER
    \/ InitClient

NextLive == NextProgram \/ FetchCall \/ NextRequest

SpecLive ==
    /\ InitLive /\ [][NextLive]_vars
    /\ WF_vars(NextProgram)
    /\ WF_vars(NextRequest)

(* ============================ claims ================================== *)

\* C1: in every reachable state of a pipeline run every stored link <<p, m>>
\* refers to a stored player p and a stored match m; and inside the
\* persistence callback the match is upserted before the player stubs, and
\* the stubs before the links.
C1_LinksReferToStoredRows ==
    /\ \A l \in links : l[1] \in DOMAIN players /\ l[2] \in DOMAIN matches
    /\ pc = "cb_stubs" => Head(match_result).matchId \in DOMAIN matches
    /\ pc = "cb_links" =>
          /\ Head(match_result).matchId \in DOMAIN matches
          /\ Head(match_result).playerPuuids \subseteq DOMAIN players

\* Reconciliation has run on a store that holds links, and a match whose
\* callback did not come to write any link.
C1_Witness ==
    /\ hist.stage3_done
    /\ links # {}
    /\ \E m \in DOMAIN matches : \A l \in links : l[2] # m

\* C2: reconciliation starts only when the tier loop has ended for every
\* requested tier; account enrichment only after reconciliation has
\* finished; league enrichment only after reconciliation and, when account
\* enrichment is enabled, after account enrichment has finished.
C2_StagesInOrder ==
    /\ pc = "stage3" => tier_i > Len(tiers)
    /\ hist.stage3_done => tier_i > Len(tiers)
    /\ pc \in {"stage4_query", "account_loop", "account_save", "account_return"} =>
          enrich_account /\ hist.stage3_done /\ ~hist.stage4_done
    /\ pc \in {"stage5_query", "league_loop", "league_save", "league_return"} =>
          /\ enrich_league /\ hist.stage3_done
          /\ enrich_account => hist.stage4_done

\* League enrichment runs in a run of two tiers with both stages enabled.
C2_Witness ==
    /\ pc = "league_loop"
    /\ enrich_account
    /\ Len(tiers) = 2
    /\ links # {}

\* C3 (as claimed): within one pipeline run the match-detail endpoint is
\* requested at most once for each match id, also when the requested tiers
\* differ and their seed players differ.
C3_DetailFetchedAtMostOnce ==
    (NoDuplicates(tiers) /\ Cardinality(all_puuid_seeds) >= Len(tiers)) =>
        \A m \in MatchIds : hist.detail_requests[m] <= 1

\* C4 (as claimed): no step changes the processed flag of a stored match
\* from true to false.
C4_ProcessedFlagKept ==
    [][\A m \in DOMAIN matches :
          matches[m].is_processed =>
             (m \in DOMAIN matches' /\ matches'[m].is_processed)]_vars

\* C5: within one call of stream, onMatch is invoked at most once for each
\* match id and only for ids of the given set.
C5_OnMatchAtMostOncePerId ==
    \A m \in MatchIds :
        /\ hist.s_on_match[m] <= 1
        /\ hist.s_on_match[m] > 0 => m \in Range(match_id_list)

\* The call has returned after onMatch was invoked for two ids.
C5_Witness ==
    /\ pc = "stream_return"
    /\ Len(match_id_list) = 2
    /\ \A m \in Range(match_id_list) : hist.s_on_match[m] = 1

\* C6: at most one fetched result is alive at any time, and no result is
\* alive when a detail request is issued.
C6_AtMostOneResultHeld ==
    /\ Len(match_result) <= 1
    /\ hist.held_at_request = 0
    /\ pc = "stream_loop" => match_result = <<>>

\* The second id's result is held while its callback runs, after the first
\* id's result was handed over and finished.
C6_Witness ==
    /\ pc = "on_match"
    /\ stream_i = 2
    /\ hist.s_on_match[match_id_list[1]] = 1
    /\ Len(match_result) = 1

\* C7: when stream returns, a detail request was issued for every id of the
\* given set, whatever happened for the other ids.
C7_EveryIdRequested ==
    pc = "stream_return" =>
        \A m \in Range(match_id_list) : hist.s_requests[m] >= 1

\* The first id failed (fetch, validation or callback) and the second id was
\* fetched and handed to the callback all the same.
C7_Witness ==
    /\ pc = "stream_return"
    /\ Len(match_id_list) = 2
    /\ match_id_list[1] \notin hist.s_ok
    /\ hist.s_on_match[match_id_list[2]] = 1

\* C8: the value stream returns is the number of ids whose fetch succeeded,
\* whose payload validated and whose callback completed.
C8_ReturnsSuccessCount ==
    pc = "stream_return" => stream_return = Cardinality(hist.s_ok)

\* Two ids were handed to the callback, one callback failed, and the call
\* returned 1.
C8_Witness ==
    /\ pc = "stream_return"
    /\ \A m \in Range(match_id_list) : hist.s_on_match[m] = 1
    /\ Len(match_id_list) = 2
    /\ stream_return = 1

\* C9: for a non-empty set of players, collect returns exactly the ids named
\* by the valid answers, each id once.
C9_ReturnsUnionWithoutDuplicates ==
    (pc = "collect_return" /\ puuid_seed_list # <<>>) =>
        /\ collect_result = "ok"
        /\ Range(match_id_list) = {m \in MatchIds : hist.reported[m] > 0}
        /\ NoDuplicates(match_id_list)

\* Two players named the same match id and collect has returned.
C9_Witness ==
    /\ pc = "collect_return"
    /\ \E m \in MatchIds : hist.reported[m] >= 2

\* C10: collect on the empty set fails with the invalid-argument error and
\* issues no upstream request.
C10_EmptySetRejected ==
    (pc = "collect_return" /\ puuid_seed_list = <<>>) =>
        /\ collect_result = InvalidArgument
        /\ \A p \in SeedIds : hist.id_requests[p] = 0

\* collect has returned from a call with the empty set.
C10_Witness ==
    /\ pc = "collect_return"
    /\ puuid_seed_list = <<>>
    /\ collect_result # "ok"

\* C11: when collect returns from a call with a non-empty set, exactly one
\* match-id request was issued for every player of the set and none for any
\* other player, and collect did not fail, however many requests failed.
C11_EveryPlayerRequested ==
    (pc = "collect_return" /\ puuid_seed_list # <<>>) =>
        /\ collect_result = "ok"
        /\ \A p \in SeedIds :
              hist.id_requests[p] = IF p \in Range(puuid_seed_list) THEN 1 ELSE 0

\* collect has returned an id after two requests of three failed.
C11_Witness ==
    /\ pc = "collect_return"
    /\ Len(puuid_seed_list) = 3
    /\ hist.id_failed = 2
    /\ match_id_list # <<>>

\* C12: in every call through the client the request function is invoked
\* at most 3 times; only the last answer can be other than a throttling
\* response; each throttling response is followed by one sleep of its hinted
\* duration, or of the fallback when it carries no hint, so that a sleep
\* precedes every retry; the call returns the response exactly when an
\* answer was a success (which takes fewer than 3 throttling responses before
\* it) and never gives up before the third throttling response; a failure
\* that is not a throttling response is thrown at once, with no sleep after
\* it and no further invocation.
C12_BoundedRetryOnThrottling ==
    LET a == client_log.answers
        s == client_log.sleeps
        Throttled(i) == a[i].kind = "rejected" /\ a[i].error.status = 429
        WaitOf(i) == IF a[i].error.retry_after = NoHint THEN 10 * 1000
                     ELSE a[i].error.retry_after * 1000
        ended == pc \in {"fetch_idle", "fixed_delay"} /\ a # <<>>
    IN  /\ Len(a) <= 3
        /\ \A i \in 1..(Len(a) - 1) : Throttled(i)
        /\ Len(s) <= Len(a)
        /\ \A i \in 1..Len(s) : Throttled(i) /\ s[i] = WaitOf(i)
        /\ pc = "api_call" => Len(s) = Len(a)
        /\ Len(s) >= Len(a) - 1
        /\ retry_outcome.kind = "returned" <=> (a # <<>> /\ a[Len(a)].kind = "ok")
        /\ (ended /\ a[Len(a)].kind = "ok") => Len(a) - 1 < 3
        /\ (ended /\ Throttled(Len(a))) => Len(a) = 3 /\ retry_outcome.kind = "thrown"
        /\ (a # <<>> /\ a[Len(a)].kind = "rejected" /\ ~Throttled(Len(a))) =>
              /\ retry_outcome = Thrown(a[Len(a)].error)
              /\ Len(s) = Len(a) - 1
              /\ pc = "fetch_idle"

\* A call returned the response at its third invocation, after a hinted and
\* an unhinted throttling response.
C12_Witness ==
    /\ retry_outcome.kind = "returned"
    /\ Len(client_log.answers) = 3
    /\ client_log.sleeps = <<1000, 10000>>

\* C13: when all 3 invocations of a call were answered by throttling
\* responses the call fails with the last of these errors, a throttling
\* error; a call that fails on another error fails with an error that is
\* not a throttling error.
C13_ExhaustionRaisesThrottlingError ==
    LET a == client_log.answers
        IsThrottlingError(e) == e.axios /\ e.status = 429
    IN  (pc = "fetch_idle" /\ a # <<>> /\ a[Len(a)].kind = "rejected") =>
           /\ retry_outcome.kind = "thrown"
           /\ IF a[Len(a)].error.status = 429
              THEN /\ Len(a) = 3
                   /\ retry_outcome.error = a[3].error
                   /\ IsThrottlingError(retry_outcome.error)
              ELSE ~IsThrottlingError(retry_outcome.error)

\* A call has failed after three throttling responses.
C13_Witness ==
    /\ pc = "fetch_idle"
    /\ Len(client_log.answers) = 3
    /\ Len(client_log.sleeps) = 3
    /\ retry_outcome.kind = "thrown"

\* C14: whenever an upstream request is about to be issued after an earlier
\* call has succeeded, at least the rate-limit delay has passed since that
\* success, whichever fetch function made the earlier call.
C14_DelayAfterEverySuccess ==
    (pc = "api_call" /\ client_log.last_ok_at >= 0) =>
        now - client_log.last_ok_at >= 1300

\* A request is about to be issued exactly one delay after a league fetch
\* succeeded.
C14_Witness ==
    /\ pc = "api_call"
    /\ client_log.last_ok = "league"
    /\ now - client_log.last_ok_at = 1300

\* C15 (as claimed): of two consecutive throttling responses without a hint
\* to the same request, the second is followed by a strictly longer wait.
C15_BackoffGrows ==
    LET a == client_log.answers
        s == client_log.sleeps
    IN  \A i \in 1..(Len(s) - 1) :
           (a[i].error.retry_after = NoHint /\ a[i + 1].error.retry_after = NoHint)
              => s[i + 1] > s[i]

\* C16: the list the sampler returns has min(Len(players), ceil(goal / 20))
\* entries, for every list, every positive goal and every draw.
C16_ReturnsMinOfLengthAndNeed ==
    LET need == CHOOSE n \in 1..match_goal : n * 20 >= match_goal /\ (n - 1) * 20 < match_goal
        len == Len(sample_players)
    IN  pc = "select_return" =>
           Len(selected) = IF len <= need THEN len ELSE need

\* Two of three players were returned for a goal of 25.
C16_Witness ==
    /\ pc = "select_return"
    /\ match_goal = 25
    /\ Len(sample_players) = 3
    /\ Len(selected) = 2

\* C17: every entry the sampler returns is an entry of the input and none
\* is returned twice; when ceil(goal / 20) is at least the length of the
\* input the result is the input in its order; and no step changes the input.
C17_SelectsDistinctInputEntries ==
    /\ [](pc = "select_return" =>
            /\ Range(selected) \subseteq Range(sample_players)
            /\ NoDuplicates(selected)
            /\ selected \in selectRandomPlayers(sample_players, match_goal)
            /\ (\E n \in 1..Len(sample_players) : n * 20 >= match_goal)
                  \/ selected = sample_players)
    /\ [][sample_players' = sample_players]_vars

\* Two of three players were returned, not the first two in their order.
C17_Witness ==
    /\ pc = "select_return"
    /\ Len(sample_players) = 3
    /\ Len(selected) = 2
    /\ selected # SubSeq(sample_players, 1, 2)

\* The player ids carried by the answers of a log that were successes, in
\* the order of the log.
RECURSIVE PuuidsOfOkPages(_)
PuuidsOfOkPages(log) ==
    IF log = <<>> THEN <<>>
    ELSE (IF Head(log).answer.kind = "ok" THEN Head(log).answer.puuids ELSE <<>>)
         \o PuuidsOfOkPages(Tail(log))

\* C18: for a low tier the page requests issued so far are the first pairs
\* of the list (division, page) in division-major order; when the fetch
\* returns, that list was requested entirely, each pair once, the fetch did
\* not fail, and the entries returned are those of the pages that succeeded,
\* in the order of the requests.
C18_LowTierRequestsEveryPage ==
    LET np == Len(pages)
        n == Len(divisions) * np
        Grid == [k \in 1..n |-> <<divisions[((k - 1) \div np) + 1],
                                  pages[((k - 1) % np) + 1]>>]
        requests == [k \in 1..Len(seed_log) |-> <<seed_log[k].division, seed_log[k].page>>]
    IN  fetch_tier \in LOW_TIERS =>
           /\ Len(requests) <= n
           /\ requests = SubSeq(Grid, 1, Len(requests))
           /\ pc = "seed_return" =>
                 /\ requests = Grid
                 /\ seed_result.kind = "returned"
                 /\ [k \in 1..Len(seed_result.entries) |-> seed_result.entries[k].puuid]
                       = PuuidsOfOkPages(seed_log)

\* Two divisions of two pages were fetched: the first page failed, the
\* second was empty, and the pages of the second division gave entries.
C18_Witness ==
    /\ pc = "seed_return"
    /\ fetch_tier \in LOW_TIERS
    /\ Len(seed_log) = 4
    /\ seed_log[1].answer.kind = "failed"
    /\ seed_log[2].answer = [kind |-> "ok", puuids |-> <<>>]
    /\ Len(seed_result.entries) = 2

\* C19: for a high tier exactly one ladder request is issued, whatever the
\* divisions and pages given, and every entry returned carries the tier in
\* upper case.
C19_HighTierOneRequestUppercase ==
    fetch_tier \in HIGH_TIERS =>
        /\ Len(seed_log) <= 1
        /\ pc = "seed_return" =>
              /\ Len(seed_log) = 1
              /\ seed_result.kind = "returned" =>
                    /\ Len(seed_result.entries) = Len(seed_log[1].answer.puuids)
                    /\ \A k \in 1..Len(seed_result.entries) :
                          seed_result.entries[k].tier = "CHALLENGER"

\* A high-tier fetch called with two divisions and two pages has returned an
\* entry.
C19_Witness ==
    /\ pc = "seed_return"
    /\ fetch_tier = "challenger"
    /\ Len(divisions) = 2
    /\ Len(pages) = 2
    /\ seed_result.kind = "returned"
    /\ seed_result.entries # <<>>

\* C20: a call of the reconciler that returns has deleted the players named
\* by no link and only those, has left the other players, the matches and
\* the links as they were, and returns the number of players it deleted.
C20_DeletesExactlyOrphans ==
    [][(pc = "reconcile_call" /\ reconcile_result'.kind = "returned") =>
          /\ DOMAIN players' = {p \in DOMAIN players : \E l \in links : l[1] = p}
          /\ \A p \in DOMAIN players' : players'[p] = players[p]
          /\ matches' = matches
          /\ links' = links
          /\ reconcile_result'.count = Cardinality(DOMAIN players) - Cardinality(DOMAIN players')
      ]_vars

\* The reconciler has deleted one player of a store and kept the other,
\* who has links.
C20_Witness ==
    /\ pc = "reconcile_return"
    /\ reconcile_runs = 1
    /\ reconcile_result = [kind |-> "returned", count |-> 1]
    /\ Cardinality(DOMAIN players) = 1
    /\ links # {}

\* C21: when deletePlayersWithoutMatches returns and is called again with no
\* write in between, the second call, if it returns, deletes no player and
\* no link and returns 0, whatever the store held before the first call.
C21_SecondRunDeletesNothing ==
    [][(/\ pc = "reconcile_call"
        /\ reconcile_runs >= 1
        /\ reconcile_result.kind = "returned"
        /\ reconcile_result'.kind = "returned") =>
          /\ players' = players
          /\ matches' = matches
          /\ links' = links
          /\ reconcile_result'.count = 0
      ]_vars

\* The first call has deleted a player, the second call has returned 0 and
\* the store still holds a player with a link.
C21_Witness ==
    /\ pc = "reconcile_return"
    /\ reconcile_log = <<[kind |-> "returned", count |-> 1],
                         [kind |-> "returned", count |-> 0]>>
    /\ players # <<>>
    /\ links # {}

\* C22: in league enrichment, when the answer for a player is a valid body
\* without a RANKED_TFT entry, or a 404, the callback is not invoked for that
\* player, no row of players changes (the stored fields keep their values,
\* no default is written), nothing is counted and the loop is at the next id.
C22_NoPrimaryEntryNoWrite ==
    [][(/\ pc = "league_loop"
        /\ enrich_k <= Len(enrich_ids)
        /\ \/ /\ enrich_answer'.kind = "ok"
              /\ \A i \in 1..Len(enrich_answer'.body) :
                    enrich_answer'.body[i].queueType # "RANKED_TFT"
           \/ /\ enrich_answer'.kind = "rejected"
              /\ enrich_answer'.error.status = 404) =>
          /\ players' = players
          /\ pc' = "league_loop"
          /\ enrich_record' = <<>>
          /\ enrich_count' = enrich_count
          /\ enrich_k' = enrich_k + 1
          /\ enrich_log' = Append(enrich_log,
                 [puuid |-> enrich_ids[enrich_k], fetched |-> FALSE,
                  saved |-> "not_invoked"])
      ]_vars

\* A stored stub was looked up, the answer held only a RANKED_TFT_TURBO
\* entry, and the stub is still a stub.
C22_Witness ==
    /\ pc = "league_loop"
    /\ enrich_k = 2
    /\ enrich_answer.kind = "ok"
    /\ Len(enrich_answer.body) = 1
    /\ enrich_answer.body[1].queueType = "RANKED_TFT_TURBO"
    /\ enrich_log = <<[puuid |-> enrich_ids[1], fetched |-> FALSE, saved |-> "not_invoked"]>>
    /\ enrich_ids[1] \in DOMAIN players
    /\ players[enrich_ids[1]] = PlayerStub

\* C23: when the league callback has written for a player whose row was a
\* stub, the row's tier, rank, league points, wins, losses and four flags are
\* those of the RANKED_TFT entry of the upstream answer, wherever that entry
\* stands in the answer and whatever other entries stand with it.
C23_StubEndsWithPrimaryEntry ==
    [][(/\ pc = "league_save"
        /\ enrich_log' = Append(enrich_log,
               [puuid |-> enrich_ids[enrich_k], fetched |-> TRUE, saved |-> "ok"])
        /\ enrich_ids[enrich_k] \in DOMAIN players
        /\ players[enrich_ids[enrich_k]] = PlayerStub) =>
          \E i \in 1..Len(enrich_answer.body) :
             LET e == enrich_answer.body[i]
                 row == players'[enrich_ids[enrich_k]]
             IN /\ e.queueType = "RANKED_TFT"
                /\ row.tier = e.tier
                /\ row.rank = e.rank
                /\ row.league_points = e.leaguePoints
                /\ row.wins = e.wins
                /\ row.losses = e.losses
                /\ row.veteran = e.veteran
                /\ row.inactive = e.inactive
                /\ row.fresh_blood = e.freshBlood
                /\ row.hot_streak = e.hotStreak
      ]_vars

\* The answer held a RANKED_TFT_TURBO entry first and a different
\* RANKED_TFT entry second; the row was written with the second.
C23_Witness ==
    /\ pc = "league_loop"
    /\ enrich_k = 2
    /\ enrich_log = <<[puuid |-> enrich_ids[1], fetched |-> TRUE, saved |-> "ok"]>>
    /\ Len(enrich_answer.body) = 2
    /\ enrich_answer.body[1].queueType = "RANKED_TFT_TURBO"
    /\ enrich_answer.body[2].queueType = "RANKED_TFT"
    /\ enrich_answer.body[1].tier # enrich_answer.body[2].tier
    /\ enrich_ids[1] \in DOMAIN players
    /\ players[enrich_ids[1]].tier = enrich_answer.body[2].tier
    /\ players[enrich_ids[1]].league_points = enrich_answer.body[2].leaguePoints

\* C24: in account enrichment, when the lookup for an id ends in a 404, in
\* any other error or in a body the schema rejects, the callback is not
\* invoked for that id, no row of players changes, nothing is counted, and
\* the loop is at the next id.
C24_AccountFailureSkipsId ==
    [][(/\ pc = "account_loop"
        /\ enrich_k <= Len(enrich_ids)
        /\ enrich_answer'.kind # "ok") =>
          /\ players' = players
          /\ pc' = "account_loop"
          /\ enrich_record' = <<>>
          /\ enrich_count' = enrich_count
          /\ enrich_k' = enrich_k + 1
          /\ enrich_log' = Append(enrich_log,
                 [puuid |-> enrich_ids[enrich_k], fetched |-> FALSE,
                  saved |-> "not_invoked"])
      ]_vars

\* The lookup of the first of two ids, a stored player, was answered 404:
\* the row has no name and the loop stands at the second id.
C24_Witness ==
    /\ pc = "account_loop"
    /\ Len(enrich_ids) = 2
    /\ enrich_k = 2
    /\ enrich_answer.kind = "rejected"
    /\ enrich_answer.error.status = 404
    /\ enrich_log = <<[puuid |-> enrich_ids[1], fetched |-> FALSE, saved |-> "not_invoked"]>>
    /\ enrich_ids[1] \in DOMAIN players
    /\ players[enrich_ids[1]].game_name = "NULL"

\* C25: when fetchAndSavePlayerAccounts or fetchAndSavePlayerLeagues has
\* returned, every id of the list was handled in order, also the ids after
\* one whose callback failed, and the number returned is the number of ids
\* whose lookup produced a record and whose callback completed.
C25_CallbackFailureIsolated ==
    pc \in {"account_return", "league_return"} =>
       /\ Len(enrich_log) = Len(enrich_ids)
       /\ \A k \in 1..Len(enrich_ids) : enrich_log[k].puuid = enrich_ids[k]
       /\ enrich_return =
             Cardinality({k \in 1..Len(enrich_log) :
                             enrich_log[k].fetched /\ enrich_log[k].saved = "ok"})

\* The callback failed for the first id and completed for the second; the
\* call returned 1.
C25_Witness ==
    /\ pc = "league_return"
    /\ Len(enrich_ids) = 2
    /\ enrich_log = <<[puuid |-> enrich_ids[1], fetched |-> TRUE, saved |-> "failed"],
                      [puuid |-> enrich_ids[2], fetched |-> TRUE, saved |-> "ok"]>>
    /\ enrich_return = 1

C28_ParticipantsBecomeSeeds ==
    pc = "done" => \A l \in links : l[1] \in all_puuid_seeds

\* C29: the stub upsert of the persistence callback leaves every row that
\* players already holds (a seed row, a stub, an enriched row) as it is, in
\* every column; the rows it adds are stubs with the default values, and
\* they are rows of participants that had no row.
C29_StubUpsertKeepsExistingRows ==
    [][pc = "cb_stubs" =>
          /\ \A p \in DOMAIN players :
                p \in DOMAIN players' /\ players'[p] = players[p]
          /\ \A p \in DOMAIN players' \ DOMAIN players :
                /\ players'[p] = PlayerStub
                /\ p \in Head(match_result).playerPuuids
                /\ pc' = "cb_links"
      ]_vars

\* The stub upsert has run for a match with two participants: the one who
\* had an enriched row still has it, the other has a stub.
C29_Witness ==
    /\ pc = "cb_links"
    /\ \E p, q \in Head(match_result).playerPuuids :
          /\ players[p] = EnrichedRow
          /\ players[q] = PlayerStub

\* C30: an invalid tier name, a match goal that is not a numeral or is not
\* positive, or an enrichment flag other than on/off ends the process with
\* an error and exit code 1 before any upstream request or store operation
\* is issued: the process never gets to runPipeline() and no call is made.
C30_InvalidCommandLineRejected ==
    LET n == Len(args)
        tier_args == SubSeq(args, 1, n - 3)
        goal == args[n - 2]
        digits == IF goal # <<>> /\ Head(goal) = "-" THEN Tail(goal) ELSE goal
        numeric == digits # <<>> /\ \A k \in 1..Len(digits) : digits[k] \in {"0", "2"}
        positive == Head(goal) # "-" /\ \E k \in 1..Len(digits) : digits[k] # "0"
        bad_goal == ~numeric \/ ~positive
        bad_flag == \E k \in {n - 1, n} : args[k] \notin {"on", "off", "ON"}
        bad_tier == /\ tier_args # <<"all">>
                    /\ \E k \in 1..Len(tier_args) : tier_args[k] \notin Tiers
    IN (n >= 4 /\ (bad_goal \/ bad_flag \/ bad_tier)) =>
           /\ pc \in {"cli_start", "cli_goal", "cli_flags", "cli_tiers", "exited"}
           /\ max_in_flight = 0
           /\ pc = "exited" => (exit_code = 1 /\ cli_error # "none")

\* C31: once a fetched match has been persisted (its callback completed and
\* the id was counted), persisting the same match again, with the same
\* payload and participants, in a later run of the same command leaves the
\* stored matches, players and links exactly as they were at the end of that
\* run, in every state of the later runs: no record or link is added and no
\* player row is altered.
C31_PersistingAgainChangesNothing ==
    \A k \in 1..Len(persist_log) :
        persist_log[k].count = 1 =>
            /\ players = persist_log[k].players
            /\ matches = persist_log[k].matches
            /\ links = persist_log[k].links

\* The match was persisted in the first run and again in the second, its
\* participants are not empty and one of them has an enriched row.
C31_Witness ==
    /\ pc = "stream_return"
    /\ Len(persist_log) = 1
    /\ persist_log[1].count = 1
    /\ stream_return = 1
    /\ \E p \in upstream_payload : players[p] = EnrichedRow
    /\ match_id_list[1] \in DOMAIN matches

\* C32: the write of an account enrichment changes at most game_name and
\* tag_line of the addressed player: its league columns and every other
\* player row stay as they are.  The write of a league enrichment changes at
\* most the nine league columns of the addressed player: its game_name and
\* tag_line and every other player row stay as they are.  Neither write
\* adds (or removes) a player row, and neither touches matches or links.
C32_EnrichmentWritesOnlyItsColumns ==
    [][ /\ pc = "account_save" =>
            LET puuid == Head(enrich_record).puuid IN
            /\ DOMAIN players' = DOMAIN players
            /\ \A p \in DOMAIN players :
                  IF p = puuid
                  THEN players'[p] = [players[p] EXCEPT
                                         !.game_name = players'[p].game_name,
                                         !.tag_line = players'[p].tag_line]
                  ELSE players'[p] = players[p]
            /\ matches' = matches /\ links' = links
        /\ pc = "league_save" =>
            LET puuid == Head(enrich_record).puuid IN
            /\ DOMAIN players' = DOMAIN players
            /\ \A p \in DOMAIN players :
                  IF p = puuid
                  THEN /\ players'[p].game_name = players[p].game_name
                       /\ players'[p].tag_line = players[p].tag_line
                  ELSE players'[p] = players[p]
            /\ matches' = matches /\ links' = links
      ]_vars

\* An account write went through for a seed row of a store that holds
\* another player: the row has the account's name and its league columns.
C32_Witness ==
    /\ pc = "account_loop"
    /\ enrich_log # <<>>
    /\ LET last == enrich_log[Len(enrich_log)] IN
       /\ last.saved = "ok"
       /\ last.puuid \in DOMAIN players
       /\ players[last.puuid] =
             [NewSeedRow("diamond") EXCEPT !.game_name = GameNames[2], !.tag_line = "SEA"]
       /\ DOMAIN players # {last.puuid}

\* C33: in a run whose account flag is off control never enters Stage 4 (no
\* query for the ids, no request to the account endpoint) and no player row
\* ever has a game_name or tag_line; in a run whose league flag is off
\* control never enters Stage 5 (no request to the league endpoint) and the
\* league columns of every row are those of a stub or of a seed row.  With
\* any flags a run that completes has gone through every tier and through
\* the reconciliation.
C33_DisabledStageDoesNothing ==
    /\ ~enrich_account =>
          /\ pc \notin {"stage4_query", "account_loop", "account_save", "account_return"}
          /\ \A p \in DOMAIN players :
                players[p].game_name = "NULL" /\ players[p].tag_line = "NULL"
    /\ ~enrich_league =>
          /\ pc \notin {"stage5_query", "league_loop", "league_save", "league_return"}
          /\ \A p \in DOMAIN players :
                players[p] \in {[r EXCEPT !.game_name = players[p].game_name,
                                          !.tag_line = players[p].tag_line] :
                                   r \in {PlayerStub} \cup {NewSeedRow(t) : t \in Tiers}}
    /\ pc = "done" => hist.stage3_done /\ tier_i = Len(tiers) + 1

\* A run with the account flag off and the league flag on has completed: a
\* row carries the league entry's values and no account name.
C33_Witness ==
    /\ pc = "done"
    /\ ~enrich_account
    /\ enrich_league
    /\ hist.stage3_done
    /\ \E p \in DOMAIN players :
          players[p].tier = LeagueTiers[1] /\ players[p].game_name = "NULL"

\* C34: once the flags are parsed, Stage 4 is enabled only if the account
\* flag argument is exactly "on" and Stage 5 only if the league flag argument
\* is exactly "on": "ON" does not enable a stage.
C34_OnlyLowercaseOnEnables ==
    pc \in {"cli_tiers", "run_pipeline", "stage1_fetch", "stage1_upsert"} =>
        /\ enrich_account => args[Len(args) - 1] = "on"
        /\ enrich_league => args[Len(args)] = "on"

\* C35: when the seed collection of a tier ends with no stored seed player,
\* the tier loop takes the next tier (or, after the last tier, goes on to
\* the reconciliation) without calling collect: no match-id request is
\* issued for that tier.  Collect is never entered with an empty set and
\* never ends with InvalidArgument in a pipeline run, and a completed run in
\* which no tier had a seed has still run the reconciliation.
C35_TierWithoutSeedsIsSkipped ==
    /\ [](/\ pc \in {"collect_call", "collect_loop", "collect_return"}
                => puuid_seed_list # <<>>
          /\ collect_result # InvalidArgument
          /\ (pc = "done" /\ all_puuid_seeds = {}) => hist.stage3_done)
    /\ [][ (pc = "stage1_upsert" /\ pc' \notin {"stage1_upsert", "fatal"}
                /\ raw_selected = <<>>) =>
              /\ pc' = IF tier_i < Len(tiers) THEN "stage1_fetch" ELSE "stage3"
              /\ tier_i' = tier_i + 1
              /\ hist'.id_requests = ZeroPerPlayer
              /\ all_puuid_seeds' = all_puuid_seeds
         ]_vars

\* Both tiers of a run had no seed player, and the run has completed.
C35_Witness ==
    /\ pc = "done"
    /\ Len(tiers) = 2
    /\ all_puuid_seeds = {}
    /\ hist.stage3_done
    /\ max_in_flight = 1

\* C36: from the completion of the reconciliation to the end of the run every
\* stored player has at least one link; the enrichment stages go through
\* stored players only and no step adds or removes a player row or a link,
\* so a seed player without a linked match is in neither enrichment pass.
C36_OnlyLinkedPlayersAfterReconcile ==
    /\ [](hist.stage3_done =>
            /\ DOMAIN players \subseteq Linked(links)
            /\ Range(enrich_ids) \subseteq DOMAIN players
            /\ \A k \in 1..Len(enrich_log) : enrich_log[k].puuid \in DOMAIN players
            /\ \A p \in all_puuid_seeds \ Linked(links) :
                  /\ p \notin DOMAIN players
                  /\ p \notin Range(enrich_ids))
    /\ [][hist.stage3_done => (DOMAIN players' = DOMAIN players /\ links' = links)]_vars

\* Both enrichment stages have run over a stored player, and a seed player
\* without a linked match was deleted before them.
C36_Witness ==
    /\ pc = "done"
    /\ hist.stage4_done /\ hist.stage5_done
    /\ \E p \in all_puuid_seeds : p \notin DOMAIN players
    /\ \E p \in DOMAIN players :
          players[p].game_name = GameNames[1] /\ players[p].tier = LeagueTiers[1]

C38_StageFailureAbortsRun ==
    /\ [](pc = "exited" => exit_code = 1)
    /\ [][ /\ (pc = "stage1_fetch" /\ pc' # pc) =>
                 \/ pc' = "stage1_upsert"
                 \/ pc' = "fatal" /\ isHighTier(tiers[tier_i])
           /\ (pc = "stage1_upsert" /\ pc' # pc) =>
                 \/ pc' = "collect_call" /\ puuid_seed_list' # <<>>
                 \/ pc' \in {"stage1_fetch", "stage3"} /\ tier_i' = tier_i + 1
                 \/ pc' = "fatal"
           /\ (pc = "stage3" /\ ~hist'.stage3_done) => pc' \in {"stage3", "fatal"}
           /\ (pc = "stage4_query" /\ pc' # pc) =>
                 \/ pc' = "account_loop" /\ enrich_ids' # <<>>
                 \/ pc' \in {"stage5_query", "done"} /\ hist'.stage4_done
                 \/ pc' = "fatal"
           /\ (pc = "stage5_query" /\ pc' # pc) =>
                 \/ pc' = "league_loop" /\ enrich_ids' # <<>>
                 \/ pc' = "done" /\ hist'.stage5_done
                 \/ pc' = "fatal"
           /\ pc' = "fatal" =>
                 /\ players' = players /\ matches' = matches /\ links' = links
                 /\ tier_i' = tier_i /\ hist' = hist
           /\ pc = "fatal" =>
                 /\ pc' = "exited"
                 /\ players' = players /\ matches' = matches /\ links' = links
           /\ pc # "exited"
         ]_vars

\* The run was aborted in its second tier: the process has exited with code
\* 1 and the records of the first tier are in the store.
C38_Witness ==
    /\ pc = "exited"
    /\ exit_code = 1
    /\ Len(tiers) = 2
    /\ tier_i = 2
    /\ ~hist.stage3_done
    /\ DOMAIN matches # {}
    /\ links # {}

\* C39: the fixed delay is entered only after a call that returned.  A call
\* that ends by throwing (a non-throttling error, or the throttling retries
\* exhausted) hands control back to its loop at once: no time passes at the
\* throw of a non-throttling error, only the retry wait passes at the throw
\* after the last throttling response, and the next request is issued with
\* no further wait.
C39_NoFixedDelayAfterFailure ==
    [][ /\ pc' = "fixed_delay" => retry_outcome'.kind = "returned"
        /\ (retry_outcome'.kind = "thrown" /\ retry_outcome.kind # "thrown") =>
              /\ pc' = "fetch_idle"
              /\ pc = "api_call" => now' = now
              /\ pc = "retry_sleep" => now' = now + retryAfter(caught) * 1000
        /\ pc = "fetch_idle" => (pc' = "api_call" /\ now' = now)
        /\ now' # now => pc \in {"retry_sleep", "fixed_delay"}
      ]_vars

\* The second request of a loop is about to be issued at time 0: the first
\* call failed with a non-throttling error and no wait followed it.
C39_Witness ==
    /\ pc = "api_call"
    /\ client_log.calls_made = 2
    /\ client_log.last_ok_at = -1
    /\ now = 0

\* C40: every pipeline run ends, completed or aborted by a fatal error,
\* whatever the upstream and the store answer; every call of
\* retryOnRateLimit ends, returning or throwing, after at most maxRetries
\* attempts, also when every attempt is throttled; and each loop visits each
\* of its items once: no tier, player, match id or enrichment id is
\* requested twice in one pass.
C40_RunTerminates ==
    /\ (pc \in {"stage1_fetch"}) ~> (pc \in {"done", "exited"})
    /\ (pc = "api_call") ~> (pc \in {"fetch_idle", "fixed_delay"})
    /\ [](/\ Len(client_log.answers) <= maxRetries
          /\ attempt <= maxRetries
          /\ tier_i <= Len(tiers) + 1
          /\ \A p \in SeedIds : hist.id_requests[p] <= 1
          /\ \A m \in MatchIds : hist.s_requests[m] <= 1
          /\ Len(enrich_log) <= Len(enrich_ids)
          /\ \A i, j \in 1..Len(enrich_log) :
                enrich_log[i].puuid = enrich_log[j].puuid => i = j)

\* A call ended by throwing after maxRetries throttled attempts.
C40_Witness ==
    /\ pc = "fetch_idle"
    /\ retry_outcome.kind = "thrown"
    /\ Len(client_log.answers) = maxRetries
    /\ \A k \in 1..maxRetries : client_log.answers[k].error.status = 429

====
